---- MODULE Spec2Model ----
(***************************************************************************)
(* Model of the thematic-analysis slice of the review analytics pipeline   *)
(* (thematic_analysis.py): keyword extraction per bank, binding of the     *)
(* extracted keywords to the fixed theme taxonomy, and tagging of every    *)
(* review with the themes whose bound keywords occur in its text.          *)
(*                                                                         *)
(* Texts, keywords and theme names are TLA+ strings; Python's `in`,        *)
(* lower(), split() and join() are modelled character by character.        *)
(***************************************************************************)
EXTENDS Integers, Sequences, FiniteSets, TLC

VARIABLES
    pc,                 \* position of the run
    df,                 \* the review table: sequence of [bank, review]
    nlp,                \* ThematicAnalyzer.nlp: "loaded" or "None"
    banks_todo,         \* banks still to visit in analyze_themes_by_bank
    bank_themes,        \* result of analyze_themes_by_bank, in insertion order
    bank_keywords,      \* the keyword list each bank passed to identify_themes
    extractor_log,      \* which extractors ran for each bank, in call order
    primary_keywords,   \* what extract_keywords_tfidf returned for each bank
    tfidf_errors,       \* for each bank, whether fit_transform raised
    themes_col,         \* the 'themes' column of the tagged copy of df
    keywords,           \* argument of a direct identify_themes call
    theme_keywords,     \* its result
    theme_keywords_again, \* result of a second call with the same argument
    calls,              \* number of identify_themes calls on `keywords`
    review_text,        \* argument of a direct assign_theme_to_review call
    matched_themes,     \* its result
    run,                \* which of two compared runs is under way (0: none)
    prev,               \* the table and the results of the first of them
    theme_summary,      \* the rows of the theme summary
    analyzer,           \* the SentimentAnalyzer: its three attributes
    sent_text,          \* argument of the last analyze_text call
    sent_result,        \* its result
    sent_invoked,       \* the classifiers it invoked, in call order
    sent_df,            \* the review table with its sentiment columns
    agg_data,           \* result of aggregate_sentiment_by_bank_and_rating
    call_log,           \* the analyze_text calls of the analyzer's last
                        \* operation: classifiers invoked, mode afterwards
    input_file,         \* the file run_full_pipeline is given
    columns,            \* the columns of its table
    stages,             \* the steps of run_full_pipeline entered so far
    written,            \* the output files written so far
    result_df,             \* what run_full_pipeline returned
    exception,          \* the exception on its way out of it ("" if none)
    main_branch,        \* the branch main() took on the result
    raw_df,             \* the raw table preprocess_reviews.main() loaded
    clean_df,           \* the table df of main() after its last step
    prep_exception,     \* the exception on its way out of preprocessing
    metrics,            \* result of calculate_data_quality_metrics
    cleaned_csv,        \* the rows written to reviews_cleaned.csv
    tagging,            \* the last call of assign_themes_to_reviews: the table
                        \* passed as the caller sees it afterwards, the table
                        \* returned, and the writes to each themes cell
    target_count,       \* scrape_app_reviews: its argument
    all_reviews,        \* the reviews collected so far
    continuation_token, \* the token for the next fetch
    attempts,           \* its attempts counter
    fetches,            \* the calls of reviews() made so far
    sent_token,         \* the token passed to the last of those calls
    last_token,         \* the token the last successful call returned
    scraped,            \* the list scrape_app_reviews returned
    banks_table,        \* the committed rows of the banks table
    bank_id_seq,        \* the last value of the sequence behind bank_id
    reviews_table,      \* the committed rows of the reviews table
    tx_reviews,         \* the review rows inserted by the open transaction
    reviews_before,     \* the reviews table when insert_reviews_from_csv began
    csv_rows,           \* the table it loaded
    names_todo,         \* the bank names it has not looked up yet
    bank_id_map,        \* its map from bank names to bank ids
    insert_error,       \* the exception its handler caught ("" if none)
    bank_calls          \* the calls of get_or_create_bank on the connection

vars == <<pc, df, nlp, banks_todo, bank_themes, bank_keywords, extractor_log,
          primary_keywords, tfidf_errors, themes_col, keywords, theme_keywords,
          theme_keywords_again, calls, review_text, matched_themes,
          run, prev, theme_summary,
          analyzer, sent_text, sent_result, sent_invoked, sent_df, agg_data,
          call_log,
          input_file, columns, stages, written, result_df, exception, main_branch,
          raw_df, clean_df, prep_exception, metrics, cleaned_csv, tagging,
          target_count, all_reviews, continuation_token, attempts, fetches,
          sent_token, last_token, scraped,
          banks_table, bank_id_seq, reviews_table, tx_reviews, reviews_before,
          csv_rows, names_todo, bank_id_map, insert_error, bank_calls>>

pipeline_vars == <<df, nlp, banks_todo, bank_themes, bank_keywords,
                   extractor_log, primary_keywords, tfidf_errors, themes_col>>

unit_vars == <<keywords, theme_keywords, theme_keywords_again, calls,
               review_text, matched_themes>>

pair_vars == <<run, prev>>

\* the variables of the other entry points of the repository
sentiment_vars == <<analyzer, sent_text, sent_result, sent_invoked, sent_df,
                    agg_data, call_log>>

run_vars == <<input_file, columns, stages, written, result_df, exception,
              main_branch>>

prep_vars == <<raw_df, clean_df, prep_exception, metrics, cleaned_csv>>

scrape_vars == <<target_count, all_reviews, continuation_token, attempts,
                 fetches, sent_token, last_token, scraped>>

db_vars == <<banks_table, bank_id_seq, reviews_table, tx_reviews, reviews_before,
             csv_rows, names_todo, bank_id_map, insert_error, bank_calls>>

io_vars == <<scrape_vars, db_vars>>

stage_vars == <<pair_vars, theme_summary, sentiment_vars, run_vars, prep_vars,
                tagging>>

---------------------------------------------------------------------------
(* Bounds of the model.                                                    *)

\* rows of the review table
MaxReviews == 3
\* length of a keyword list passed directly to identify_themes
MaxKeywords == 2
\* weight levels of the keywords of such a list
MaxWeight == 2
\* levels the mean TF-IDF score of a feature is abstracted to
MaxScore == 1

---------------------------------------------------------------------------
(* Strings.                                                                *)

\* A missing value (pandas NaN / None) in a text column.
NaN == "<NaN>"

isna(v) == v = NaN

Ch(s, i) == SubSeq(s, i, i)

\* the upper-case letters with their lower-case forms
ToLower ==
    ("A" :> "a") @@ ("B" :> "b") @@ ("C" :> "c") @@ ("D" :> "d") @@
    ("E" :> "e") @@ ("F" :> "f") @@ ("G" :> "g") @@ ("H" :> "h") @@
    ("I" :> "i") @@ ("J" :> "j") @@ ("K" :> "k") @@ ("L" :> "l") @@
    ("M" :> "m") @@ ("N" :> "n") @@ ("O" :> "o") @@ ("P" :> "p") @@
    ("Q" :> "q") @@ ("R" :> "r") @@ ("S" :> "s") @@ ("T" :> "t") @@
    ("U" :> "u") @@ ("V" :> "v") @@ ("W" :> "w") @@ ("X" :> "x") @@
    ("Y" :> "y") @@ ("Z" :> "z")

LowerLetters ==
    {"a", "b", "c", "d", "e", "f", "g", "h", "i", "j", "k", "l", "m",
     "n", "o", "p", "q", "r", "s", "t", "u", "v", "w", "x", "y", "z"}

DigitChars == {"0", "1", "2", "3", "4", "5", "6", "7", "8", "9"}

IsUpper(c) == c \in DOMAIN ToLower
IsLower(c) == c \in LowerLetters
IsDigit(c) == c \in DigitChars

\* \w of Python's re module
IsWordChar(c) == IsUpper(c) \/ IsLower(c) \/ IsDigit(c) \/ c = "_"

\* \s of Python's re module (the modelled texts hold no other whitespace)
IsSpace(c) == c = " "

LowerChar(c) == IF IsUpper(c) THEN ToLower[c] ELSE c

\* str.lower()
RECURSIVE lower(_)
lower(s) ==
    IF s = "" THEN "" ELSE LowerChar(Ch(s, 1)) \o lower(SubSeq(s, 2, Len(s)))

\* Python's `p in s` on strings
Contains(s, p) ==
    \E i \in 1..(Len(s) - Len(p) + 1) : SubSeq(s, i, i + Len(p) - 1) = p

\* str.split(): the maximal runs of non-whitespace characters
RECURSIVE SplitFrom(_, _, _)
SplitFrom(s, i, cur) ==
    IF i > Len(s)
    THEN IF cur = "" THEN <<>> ELSE <<cur>>
    ELSE IF IsSpace(Ch(s, i))
         THEN (IF cur = "" THEN <<>> ELSE <<cur>>) \o SplitFrom(s, i + 1, "")
         ELSE SplitFrom(s, i + 1, cur \o Ch(s, i))

split(s) == SplitFrom(s, 1, "")

\* sep.join(parts)
RECURSIVE join(_, _)
join(sep, parts) ==
    IF parts = <<>> THEN ""
    ELSE IF Len(parts) = 1 THEN parts[1]
    ELSE parts[1] \o sep \o join(sep, Tail(parts))

\* str.split(sep) for a non-empty separator
RECURSIVE SplitOn(_, _, _, _)
SplitOn(s, sep, i, cur) ==
    IF i > Len(s) THEN <<cur>>
    ELSE IF i + Len(sep) - 1 <= Len(s) /\ SubSeq(s, i, i + Len(sep) - 1) = sep
         THEN <<cur>> \o SplitOn(s, sep, i + Len(sep), "")
         ELSE SplitOn(s, sep, i + 1, cur \o Ch(s, i))

Range(f) == {f[i] : i \in DOMAIN f}

\* str.lstrip() and str.rstrip()
RECURSIVE StripSpacesLeft(_)
StripSpacesLeft(s) ==
    IF s = "" \/ ~IsSpace(Ch(s, 1)) THEN s ELSE StripSpacesLeft(SubSeq(s, 2, Len(s)))

RECURSIVE StripSpacesRight(_)
StripSpacesRight(s) ==
    IF s = "" \/ ~IsSpace(Ch(s, Len(s))) THEN s
    ELSE StripSpacesRight(SubSeq(s, 1, Len(s) - 1))

---------------------------------------------------------------------------
(* ThematicAnalyzer.identify_themes                                        *)

theme_patterns == <<
    [theme |-> "Account Access Issues",
     patterns |-> <<"login", "access", "password", "authentication",
                    "authorization", "offline", "connection", "network",
                    "error", "failed", "blocked", "uninstall", "device",
                    "register", "activate">>],
    [theme |-> "Transaction Performance",
     patterns |-> <<"transfer", "payment", "transaction", "slow", "fast",
                    "speed", "delay", "timeout", "processing", "complete",
                    "success", "fail", "wallet", "send", "receive",
                    "money">>],
    [theme |-> "User Interface & Experience",
     patterns |-> <<"ui", "interface", "design", "layout", "user",
                    "friendly", "easy", "simple", "complex", "confusing",
                    "navigation", "screen", "button", "feature",
                    "functionality">>],
    [theme |-> "App Reliability & Bugs",
     patterns |-> <<"crash", "bug", "error", "issue", "problem", "glitch",
                    "freeze", "hang", "stuck", "loading", "spinning", "down",
                    "unreliable", "broken", "not work", "doesn't work">>],
    [theme |-> "Customer Support",
     patterns |-> <<"support", "help", "service", "contact", "branch",
                    "visit", "assistance", "response", "complaint",
                    "feedback">>],
    [theme |-> "Security & Privacy",
     patterns |-> <<"security", "safe", "secure", "privacy", "data",
                    "protection", "screenshot", "restriction", "policy",
                    "authorization">>],
    [theme |-> "Feature Requests",
     patterns |-> <<"feature", "request", "add", "need", "want", "missing",
                    "suggestion", "improve", "enhance", "wish", "would like",
                    "should have", "could have", "multiple account">> ] >>

\* pattern_lower = pattern.lower(), for every pattern of the taxonomy
patterns_lower ==
    [t \in DOMAIN theme_patterns |->
        [j \in DOMAIN theme_patterns[t].patterns |->
            lower(theme_patterns[t].patterns[j])]]

\* the (kw.lower(), score) pairs of the keyword list, in list order
lowered(kws) == [i \in DOMAIN kws |-> <<lower(kws[i][1]), kws[i][2]>>]

\* keyword_dict = {kw.lower(): score for kw, score in keywords}
\* (a later duplicate of a lowercased keyword overwrites the earlier score)
keyword_dict(kwl) ==
    [k \in {kwl[i][1] : i \in DOMAIN kwl} |->
        LET last == CHOOSE i \in DOMAIN kwl :
                        /\ kwl[i][1] = k
                        /\ \A j \in DOMAIN kwl : kwl[j][1] = k => j <= i
        IN  kwl[last][2]]

\* assigned_keywords as an attribute that outlives the call: it still holds
\* the keywords bound by the call that produced theme_keywords
assigned_keywords_kept ==
    UNION {{theme_keywords[t].keywords[i][1] :
                i \in DOMAIN theme_keywords[t].keywords} :
           t \in DOMAIN theme_keywords}

\* assigned_keywords = set()
assigned_keywords == {}

Bind(st, kw_lower, score) ==
    [bound |-> Append(st.bound, <<kw_lower, score>>),
     assigned |-> st.assigned \cup {kw_lower}]

\* the match test of "Check for partial matches" without the second direction
PartialHit_seed_in_keyword_only(pattern_lower, kw_lower) ==
    Contains(kw_lower, pattern_lower)

\* pattern_lower in kw_lower or kw_lower in pattern_lower
SubstringEitherWay(pattern_lower, kw_lower) ==
    Contains(kw_lower, pattern_lower) \/ Contains(pattern_lower, kw_lower)

\* the same test, evaluated once for the words a model run can meet
HitTable ==
    [kw_lower \in {"error", "app crash", "good", "work", "app", "crash",
                   "login", "crash login"} |->
        {pattern_lower \in UNION {Range(patterns_lower[t]) : t \in DOMAIN patterns_lower} :
            SubstringEitherWay(pattern_lower, kw_lower)}]

PartialHit(pattern_lower, kw_lower) ==
    IF kw_lower \in DOMAIN HitTable
    THEN pattern_lower \in HitTable[kw_lower]
    ELSE SubstringEitherWay(pattern_lower, kw_lower)

\* the guard of a binding without the assigned_keywords test
Unassigned_unchecked(kw_lower, assigned) == TRUE

\* kw_lower not in assigned_keywords
Unassigned(kw_lower, assigned) == kw_lower \notin assigned

\* The binding attempts of one theme, in the order the loops make them: for
\* each pattern, the exact match (pattern_lower with keyword_dict's score)
\* and then every keyword of the list that the pattern partially matches.
RECURSIVE Attempts(_, _, _, _)
Attempts(patterns, j, kwl, dict) ==
    IF j > Len(patterns) THEN <<>>
    ELSE LET pattern_lower == patterns[j]
         IN  (IF pattern_lower \in DOMAIN dict
              THEN <<<<pattern_lower, dict[pattern_lower]>>>>
              ELSE <<>>)
             \o SelectSeq(kwl, LAMBDA k : PartialHit(pattern_lower, k[1]))
             \o Attempts(patterns, j + 1, kwl, dict)

\* An attempt appends its keyword to the theme and adds it to
\* assigned_keywords unless the keyword is already assigned.
RECURSIVE BindAll(_, _)
BindAll(tries, st) ==
    IF tries = <<>> THEN st
    ELSE BindAll(Tail(tries),
                 IF Unassigned(Head(tries)[1], st.assigned)
                 THEN Bind(st, Head(tries)[1], Head(tries)[2])
                 ELSE st)

\* for theme, patterns in theme_patterns.items()
RECURSIVE ScanThemes(_, _, _, _, _)
ScanThemes(t, kwl, dict, result, assigned) ==
    IF t > Len(theme_patterns) THEN result
    ELSE LET st == BindAll(Attempts(patterns_lower[t], 1, kwl, dict),
                           [bound |-> <<>>, assigned |-> assigned])
         IN  ScanThemes(t + 1, kwl, dict,
                        Append(result, [theme |-> theme_patterns[t].theme,
                                        keywords |-> st.bound]),
                        st.assigned)

\* the mapping with its empty themes left in
RemoveEmptyThemes_skipped(tk) == tk

\* "Remove empty themes"
RemoveEmptyThemes(tk) == SelectSeq(tk, LAMBDA e : e.keywords # <<>>)

\* list.sort(key=score, reverse=True): stable, descending
RECURSIVE InsertByScore(_, _)
InsertByScore(sorted, x) ==
    IF sorted = <<>> THEN <<x>>
    ELSE IF Head(sorted)[2] >= x[2]
         THEN <<Head(sorted)>> \o InsertByScore(Tail(sorted), x)
         ELSE <<x>> \o sorted

RECURSIVE SortFrom(_, _, _)
SortFrom(seq, i, acc) ==
    IF i > Len(seq) THEN acc ELSE SortFrom(seq, i + 1, InsertByScore(acc, seq[i]))

\* the theme's list left in binding order
SortByScore_skipped(seq) == seq

\* "Sort keywords within each theme by score"
SortByScore(seq) == SortFrom(seq, 1, <<>>)

identify_themes(kws, bank_name) ==
    LET kwl == lowered(kws)
        kept == RemoveEmptyThemes(
                    ScanThemes(1, kwl, keyword_dict(kwl), <<>>, assigned_keywords))
    IN  [t \in DOMAIN kept |->
            [theme |-> kept[t].theme, keywords |-> SortByScore(kept[t].keywords)]]

---------------------------------------------------------------------------
(* ThematicAnalyzer.assign_theme_to_review                                 *)

\* one theme of the loop, without the break: one append per matching keyword
ThemeHits_no_break(entry, review_lower) ==
    LET hits == SelectSeq(entry.keywords, LAMBDA k : Contains(review_lower, k[1]))
    IN  [i \in DOMAIN hits |-> entry.theme]

\* one theme of the loop with the operands of `in` exchanged
ThemeHits_swapped(entry, review_lower) ==
    IF \E i \in DOMAIN entry.keywords : Contains(entry.keywords[i][1], review_lower)
    THEN <<entry.theme>>
    ELSE <<>>

\* one theme of the loop: appended once at its first matching keyword
ThemeHits(entry, review_lower) ==
    IF \E i \in DOMAIN entry.keywords : Contains(review_lower, entry.keywords[i][1])
    THEN <<entry.theme>>
    ELSE <<>>

RECURSIVE MatchThemes(_, _, _)
MatchThemes(tk, t, review_lower) ==
    IF t > Len(tk) THEN <<>>
    ELSE ThemeHits(tk[t], review_lower) \o MatchThemes(tk, t + 1, review_lower)

\* the return value with 'Other' appended to every result
OrOther_always(matched) == Append(matched, "Other")

\* matched_themes if matched_themes else ['Other']
OrOther(matched) == IF matched # <<>> THEN matched ELSE <<"Other">>

assign_theme_to_review(text, tk) ==
    IF isna(text) \/ text = "" THEN <<>>
    ELSE OrOther(MatchThemes(tk, 1, lower(text)))

---------------------------------------------------------------------------
(* ThematicAnalyzer.preprocess_text                                        *)

\* a match of http\S+ or www\S+ starts at the head of s
StartsUrl(s) ==
    \/ Len(s) >= 5 /\ SubSeq(s, 1, 4) = "http" /\ ~IsSpace(Ch(s, 5))
    \/ Len(s) >= 4 /\ SubSeq(s, 1, 3) = "www" /\ ~IsSpace(Ch(s, 4))

RECURSIVE DropNonSpace(_)
DropNonSpace(s) ==
    IF s = "" \/ IsSpace(Ch(s, 1)) THEN s ELSE DropNonSpace(SubSeq(s, 2, Len(s)))

\* re.sub(r'http\S+|www\S+', '', text)
RECURSIVE RemoveUrls(_)
RemoveUrls(s) ==
    IF s = "" THEN ""
    ELSE IF StartsUrl(s) THEN RemoveUrls(DropNonSpace(s))
    ELSE Ch(s, 1) \o RemoveUrls(SubSeq(s, 2, Len(s)))

\* re.sub(r'[^\w\s]', ' ', text)
RECURSIVE RemoveSpecial(_)
RemoveSpecial(s) ==
    IF s = "" THEN ""
    ELSE (IF IsWordChar(Ch(s, 1)) \/ IsSpace(Ch(s, 1)) THEN Ch(s, 1) ELSE " ")
         \o RemoveSpecial(SubSeq(s, 2, Len(s)))

preprocess_text(text) ==
    IF isna(text) \/ text = "" THEN ""
    ELSE join(" ", split(RemoveSpecial(RemoveUrls(lower(text)))))

---------------------------------------------------------------------------
(* ThematicAnalyzer.extract_keywords_tfidf                                 *)

min_df == 2
\* max_df = 0.8 as the fraction max_df_num / max_df_den
max_df_num == 8
max_df_den == 10
max_features == 100
top_n == 100

\* the members of scikit-learn's English stop-word list among the words of
\* the modelled texts
ENGLISH_STOP_WORDS == {"on", "the", "is", "not", "and", "to"}

\* TfidfVectorizer's analyzer: tokens of two or more word characters, stop
\* words removed, then the unigrams followed by the bigrams of what is left
Tokens(doc) ==
    SelectSeq(split(doc), LAMBDA w : Len(w) >= 2 /\ w \notin ENGLISH_STOP_WORDS)

Ngrams(doc) ==
    LET toks == Tokens(doc)
    IN  toks \o [i \in 1..(Len(toks) - 1) |-> toks[i] \o " " \o toks[i + 1]]

\* number of documents a term occurs in
DocFreq(term, docs) ==
    Cardinality({i \in DOMAIN docs : term \in Range(Ngrams(docs[i]))})

\* number of occurrences of a term in the corpus
TermFreq(term, docs) ==
    LET RECURSIVE Sum(_)
        Sum(i) == IF i > Len(docs) THEN 0
                  ELSE Cardinality({j \in DOMAIN Ngrams(docs[i]) :
                                       Ngrams(docs[i])[j] = term}) + Sum(i + 1)
    IN  Sum(1)

Vocabulary(docs) == UNION {Range(Ngrams(docs[i])) : i \in DOMAIN docs}

\* the document-frequency test with the upper limit dropped
InDfRange_no_max(d, n_doc) == d >= min_df

\* min_df <= document frequency <= max_df * n_doc
InDfRange(d, n_doc) == d >= min_df /\ d * max_df_den <= max_df_num * n_doc

\* the max_features terms of highest corpus frequency
LimitFeatures(terms, docs) ==
    IF Cardinality(terms) <= max_features THEN terms
    ELSE CHOOSE S \in SUBSET terms :
            /\ Cardinality(S) = max_features
            /\ \A a \in S, b \in terms \ S : TermFreq(a, docs) >= TermFreq(b, docs)

\* fit_transform: the features kept, or a ValueError (empty vocabulary,
\* max_df below min_df, or no term left after pruning)
TfidfFit(docs) ==
    LET vocab == Vocabulary(docs)
        n_doc == Len(docs)
        kept == LimitFeatures({t \in vocab : InDfRange(DocFreq(t, docs), n_doc)}, docs)
    IN  IF vocab = {} \/ max_df_num * n_doc < min_df * max_df_den \/ kept = {}
        THEN [error |-> TRUE, features |-> {}]
        ELSE [error |-> FALSE, features |-> kept]

\* code-point order of the characters feature names are made of
CharOrder == " 0123456789_abcdefghijklmnopqrstuvwxyz"

Rank(c) == CHOOSE i \in 1..Len(CharOrder) : Ch(CharOrder, i) = c

RECURSIVE StrLess(_, _)
StrLess(a, b) ==
    IF b = "" THEN FALSE
    ELSE IF a = "" THEN TRUE
    ELSE IF Ch(a, 1) = Ch(b, 1)
         THEN StrLess(SubSeq(a, 2, Len(a)), SubSeq(b, 2, Len(b)))
         ELSE Rank(Ch(a, 1)) < Rank(Ch(b, 1))

\* get_feature_names_out(): the features in lexicographic order
RECURSIVE SortedNames(_)
SortedNames(S) ==
    IF S = {} THEN <<>>
    ELSE LET m == CHOOSE x \in S : \A y \in S : y = x \/ StrLess(x, y)
         IN  <<m>> \o SortedNames(S \ {m})

\* keywords.sort(key=lambda x: x[1], reverse=True)
SortKeywords(seq) == SortFrom(seq, 1, <<>>)

\* the list returned on success, given the mean TF-IDF score of each feature
TfidfKeywords(features, mean_scores) ==
    LET names == SortedNames(features)
    IN  SortKeywords([i \in DOMAIN names |-> <<names[i], mean_scores[names[i]]>>])

\* an except clause that names one exception class only
Caught_KeyError_only(exc) == exc = "KeyError"

\* except Exception as e: every exception raised inside the try is caught
Caught(exc) == TRUE

\* the try/except around fit_transform: the sorted keyword list, [] after a
\* caught exception, or the exception on its way out of the method
extract_keywords_tfidf(fit, mean_scores) ==
    IF fit.error
    THEN [raised |-> ~Caught("ValueError"), keywords |-> <<>>]
    ELSE [raised |-> FALSE, keywords |-> TfidfKeywords(fit.features, mean_scores)]

\* the fallback taken whatever the primary extractor returned
UseFallback_always(kws) == TRUE

\* if not keywords
UseFallback(kws) == kws = <<>>

---------------------------------------------------------------------------
(* ThematicAnalyzer.extract_keywords_spacy                                 *)

\* the en_core_web_sm pipeline on the words of the modelled texts
spacy_is_stop(word) == lower(word) \in {"on", "the", "is", "not", "and", "to"}

spacy_pos(word) ==
    CASE lower(word) \in {"app", "crash", "login", "error"} -> "NOUN"
      [] lower(word) \in {"slow"} -> "ADJ"
      [] lower(word) \in {"on"} -> "ADP"
      [] OTHER -> "X"

spacy_lemma(word) == word

RECURSIVE StripLeft(_)
StripLeft(s) ==
    IF s = "" \/ IsWordChar(Ch(s, 1)) THEN s ELSE StripLeft(SubSeq(s, 2, Len(s)))

RECURSIVE StripRight(_)
StripRight(s) ==
    IF s = "" \/ IsWordChar(Ch(s, Len(s))) THEN s
    ELSE StripRight(SubSeq(s, 1, Len(s) - 1))

\* the tokens of nlp(text) that are not punctuation
SpacyWords(text) ==
    SelectSeq([i \in DOMAIN split(text) |-> StripRight(StripLeft(split(text)[i]))],
              LAMBDA w : w # "")

\* the list comprehension over the tokens of one document
DocKeywords(text) ==
    LET kept == SelectSeq(SpacyWords(text),
                    LAMBDA w : /\ ~spacy_is_stop(w)
                               /\ spacy_pos(w) \in {"NOUN", "ADJ", "VERB"}
                               /\ Len(spacy_lemma(w)) > 2)
    IN  [i \in DOMAIN kept |-> lower(spacy_lemma(kept[i]))]

RECURSIVE AllKeywords(_, _)
AllKeywords(texts, i) ==
    IF i > Len(texts) THEN <<>>
    ELSE (IF isna(texts[i]) \/ texts[i] = "" THEN <<>> ELSE DocKeywords(texts[i]))
         \o AllKeywords(texts, i + 1)

\* the distinct elements of a sequence, in order of first occurrence
RECURSIVE Distinct(_, _)
Distinct(seq, seen) ==
    IF seq = <<>> THEN <<>>
    ELSE IF Head(seq) \in seen THEN Distinct(Tail(seq), seen)
    ELSE <<Head(seq)>> \o Distinct(Tail(seq), seen \cup {Head(seq)})

\* Counter(all_keywords).most_common(top_n)
most_common(all, n) ==
    LET keys == Distinct(all, {})
        counted == SortKeywords([i \in DOMAIN keys |->
                      <<keys[i], Cardinality({j \in DOMAIN all : all[j] = keys[i]})>>])
    IN  SubSeq(counted, 1, IF Len(counted) < n THEN Len(counted) ELSE n)

extract_keywords_spacy(texts) ==
    IF nlp = "None" THEN <<>> ELSE most_common(AllKeywords(texts, 1), top_n)

---------------------------------------------------------------------------
(* SentimentAnalyzer (sentiment_analysis.py). Scores are in hundredths.    *)

\* no analyzer constructed yet
NoAnalyzer == [use_distilbert |-> FALSE, distilbert_pipeline |-> "None",
               vader_analyzer |-> "None"]

\* no analyze_text call made yet
NoResult == [sentiment_label |-> "", sentiment_score |-> 0]

sentiment_idle ==
    /\ analyzer = NoAnalyzer
    /\ sent_text = ""
    /\ sent_result = NoResult
    /\ sent_invoked = <<>>
    /\ sent_df = <<>>
    /\ agg_data = <<>>
    /\ call_log = <<>>

\* SentimentAnalyzer.__init__: the DistilBERT pipeline loads or raises, and
\* VADER is initialised when DistilBERT is not in use
SentimentAnalyzer(use_distilbert, load_ok) ==
    [use_distilbert |-> use_distilbert /\ load_ok,
     distilbert_pipeline |-> IF use_distilbert /\ load_ok THEN "loaded" ELSE "None",
     vader_analyzer |-> IF use_distilbert /\ load_ok THEN "None" ELSE "ready"]

\* str.strip()
strip(s) == StripSpacesRight(StripSpacesLeft(s))

\* the guard of analyze_text without the strip
IsBlankText_no_strip(text) == isna(text) \/ text = ""

\* not text or pd.isna(text) or str(text).strip() == ''
IsBlankText(text) == text = "" \/ isna(text) \/ strip(text) = ""

\* the answers of the DistilBERT pipeline to one text: a label of the SST-2
\* model with its score, or an exception
DistilbertReplies ==
    {[raised |-> FALSE, label |-> "POSITIVE", score |-> 99],
     [raised |-> FALSE, label |-> "NEGATIVE", score |-> 75],
     [raised |-> TRUE, label |-> "", score |-> 0]}

\* the result built from a reply of the pipeline
FromDistilbert(reply) ==
    LET label == lower(reply.label)
    IN  IF label = "positive"
        THEN [sentiment_label |-> "positive", sentiment_score |-> reply.score]
        ELSE IF label = "negative"
        THEN [sentiment_label |-> "negative", sentiment_score |-> reply.score]
        ELSE [sentiment_label |-> "neutral", sentiment_score |-> 50]

\* polarity_scores(text)['compound'] of VADER's lexicon on the modelled
\* texts ("good" is a positive entry of the lexicon, "crash" a negative one)
vader_compound(text) ==
    IF Contains(lower(text), "good") THEN 44
    ELSE IF Contains(lower(text), "crash") THEN 0 - 46
    ELSE 0

abs(x) == IF x < 0 THEN 0 - x ELSE x

\* the result built from the compound score
FromVader(compound) ==
    IF compound >= 5
    THEN [sentiment_label |-> "positive", sentiment_score |-> compound]
    ELSE IF compound <= 0 - 5
    THEN [sentiment_label |-> "negative", sentiment_score |-> abs(compound)]
    ELSE [sentiment_label |-> "neutral", sentiment_score |-> abs(compound)]

\* the test with the loaded pipeline alone
UsesDistilbert_pipeline_only(an) == an.distilbert_pipeline # "None"

\* if self.use_distilbert and self.distilbert_pipeline
UsesDistilbert(an) == an.use_distilbert /\ an.distilbert_pipeline # "None"

\* SentimentAnalyzer.analyze_text on an analyzer `an`, given the reply the
\* DistilBERT pipeline has for the text: the result, the analyzer after the
\* call and the classifiers invoked
analyze_text(an, text, reply) ==
    IF IsBlankText(text)
    THEN [result |-> [sentiment_label |-> "neutral", sentiment_score |-> 0],
          analyzer |-> an, invoked |-> <<>>]
    ELSE LET stripped == strip(text)
             distilbert == UsesDistilbert(an)
         IN  IF distilbert /\ ~reply.raised
             THEN [result |-> FromDistilbert(reply), analyzer |-> an,
                   invoked |-> <<"distilbert">>]
             ELSE LET after == IF distilbert
                               THEN [an EXCEPT !.use_distilbert = FALSE] ELSE an
                      tried == IF distilbert THEN <<"distilbert">> ELSE <<>>
                  IN  IF after.vader_analyzer # "None"
                      THEN [result |-> FromVader(vader_compound(stripped)),
                            analyzer |-> after, invoked |-> Append(tried, "vader")]
                      ELSE [result |-> [sentiment_label |-> "neutral",
                                        sentiment_score |-> 0],
                            analyzer |-> after, invoked |-> tried]

\* SentimentAnalyzer.analyze_batch: analyze_text on every text in turn, with
\* the reply the pipeline has for each text
RECURSIVE analyze_batch(_, _, _, _)
analyze_batch(an, texts, i, replies) ==
    IF i > Len(texts) THEN [results |-> <<>>, analyzer |-> an, log |-> <<>>]
    ELSE LET one == analyze_text(an, texts[i],
                        IF texts[i] \in DOMAIN replies THEN replies[texts[i]]
                        ELSE [raised |-> TRUE, label |-> "", score |-> 0])
             rest == analyze_batch(one.analyzer, texts, i + 1, replies)
         IN  [results |-> <<one.result>> \o rest.results, analyzer |-> rest.analyzer,
              log |-> <<[invoked |-> one.invoked,
                         use_distilbert |-> one.analyzer.use_distilbert]>>
                      \o rest.log]

\* the distinct values of a sequence of numbers, ascending
RECURSIVE SortedValues(_)
SortedValues(S) ==
    IF S = {} THEN <<>>
    ELSE LET m == CHOOSE x \in S : \A y \in S : x <= y
         IN  <<m>> \o SortedValues(S \ {m})

\* the rows of any bank that have the rating
rating_df_any_bank(d, bank, rating) == SelectSeq(d, LAMBDA r : r.rating = rating)

\* bank_df[bank_df['rating'] == rating]
rating_df(d, bank, rating) ==
    SelectSeq(d, LAMBDA r : r.bank = bank /\ r.rating = rating)

\* the number of rows with the label
LabelCount(rows, label) ==
    Cardinality({i \in DOMAIN rows : rows[i].sentiment_label = label})

RECURSIVE ScoreSum(_, _)
ScoreSum(rows, i) ==
    IF i > Len(rows) THEN 0 ELSE rows[i].sentiment_score + ScoreSum(rows, i + 1)

\* one row of agg_data; a mean is the fraction num / den and a percentage
\* the fraction num / den of count / len * 100
AggRow(bank, rating, rows) ==
    [bank |-> bank,
     rating |-> rating,
     review_count |-> Len(rows),
     mean_sentiment_score |-> [num |-> ScoreSum(rows, 1), den |-> Len(rows)],
     positive_pct |-> [num |-> LabelCount(rows, "positive") * 100, den |-> Len(rows)],
     negative_pct |-> [num |-> LabelCount(rows, "negative") * 100, den |-> Len(rows)],
     neutral_pct |-> [num |-> LabelCount(rows, "neutral") * 100, den |-> Len(rows)]]

\* for rating in sorted(bank_df['rating'].unique())
RECURSIVE AggRatings(_, _, _)
AggRatings(d, bank, ratings) ==
    IF ratings = <<>> THEN <<>>
    ELSE LET rows == rating_df(d, bank, Head(ratings))
         IN  (IF Len(rows) > 0 THEN <<AggRow(bank, Head(ratings), rows)>> ELSE <<>>)
             \o AggRatings(d, bank, Tail(ratings))

\* for bank in df['bank'].unique()
RECURSIVE AggBanks(_, _)
AggBanks(d, banks) ==
    IF banks = <<>> THEN <<>>
    ELSE AggRatings(d, Head(banks),
             SortedValues({d[i].rating : i \in {j \in DOMAIN d : d[j].bank = Head(banks)}}))
         \o AggBanks(d, Tail(banks))

\* aggregate_sentiment_by_bank_and_rating(df) for a table that has the two
\* sentiment columns
aggregate_sentiment_by_bank_and_rating(d) ==
    AggBanks(d, Distinct([i \in DOMAIN d |-> d[i].bank], {}))

---------------------------------------------------------------------------
(* The inputs of the model.                                                *)

Banks == {"Commercial Bank of Ethiopia", "Bank of Abyssinia"}

ReviewTexts == {NaN, "", "App crash!", "crash on login www.a.b"}

\* the tables read from the cleaned CSV: the bank column is never missing
\* (handle_missing_data fills it), the review column may be
Tables ==
    UNION {[1..n -> [bank : Banks, review : ReviewTexts]] : n \in 0..MaxReviews}

KeywordPool == {"error", "App crash", "good", "work"}

KeywordLists ==
    UNION {[1..n -> KeywordPool \X (1..MaxWeight)] : n \in 0..MaxKeywords}

UnitTexts == ReviewTexts \cup {"Network error, app crash"}

---------------------------------------------------------------------------
(* analyze_themes_by_bank                                                  *)

\* df['bank'].unique(): the banks in order of first appearance
unique(d) == Distinct([i \in DOMAIN d |-> d[i].bank], {})

\* the reviews of every bank instead of the bank's own
bank_reviews_all(d, bank) == [i \in DOMAIN d |-> d[i].review]

\* df[df['bank'] == bank]['review'].tolist()
bank_reviews(d, bank) ==
    LET rows == SelectSeq(d, LAMBDA r : r.bank = bank)
    IN  [i \in DOMAIN rows |-> rows[i].review]

\* the file run_full_pipeline has not looked at yet
NoFile == [exists |-> FALSE, columns |-> {}, rows |-> <<>>]

run_idle ==
    /\ input_file = NoFile
    /\ columns = {}
    /\ stages = <<>>
    /\ written = {}
    /\ result_df = "pending"
    /\ exception = ""
    /\ main_branch = ""

\* a database the scripts have not connected to
db_idle ==
    /\ banks_table = <<>>
    /\ bank_id_seq = 0
    /\ reviews_table = <<>>
    /\ tx_reviews = <<>>
    /\ reviews_before = <<>>
    /\ csv_rows = <<>>
    /\ names_todo = <<>>
    /\ bank_id_map = <<>>
    /\ insert_error = ""
    /\ bank_calls = <<>>

\* continuation_token = None
NoToken == 0 - 1

scrape_idle ==
    /\ target_count = 0
    /\ all_reviews = <<>>
    /\ continuation_token = NoToken
    /\ attempts = 0
    /\ fetches = 0
    /\ sent_token = NoToken
    /\ last_token = NoToken
    /\ scraped = <<>>

\* assign_themes_to_reviews not called yet
NoTagging == [arg |-> <<>>, out |-> <<>>, writes |-> <<>>]

\* no quality metrics computed yet
NoMetrics == <<>>

prep_idle ==
    /\ raw_df = <<>>
    /\ clean_df = <<>>
    /\ prep_exception = ""
    /\ metrics = NoMetrics
    /\ cleaned_csv = <<>>

\* no run to compare with
NoRun == [df |-> <<>>, bank_themes |-> <<>>, bank_keywords |-> <<>>,
          themes_col |-> <<>>]

pair_idle == run = 0 /\ prev = NoRun

Init ==
    /\ pc = "start"
    /\ df = <<>>
    /\ nlp = "None"
    /\ banks_todo = <<>>
    /\ bank_themes = <<>>
    /\ bank_keywords = <<>>
    /\ extractor_log = <<>>
    /\ primary_keywords = <<>>
    /\ tfidf_errors = <<>>
    /\ themes_col = <<>>
    /\ keywords = <<>>
    /\ theme_keywords = <<>>
    /\ theme_keywords_again = <<>>
    /\ calls = 0
    /\ review_text = ""
    /\ matched_themes = <<>>
    /\ pair_idle
    /\ theme_summary = <<>>
    /\ sentiment_idle
    /\ run_idle
    /\ prep_idle
    /\ tagging = NoTagging
    /\ scrape_idle
    /\ db_idle

\* entry of analyze_themes_by_bank(df): the analyzer is constructed (spaCy
\* model loaded or not) and the loop over df['bank'].unique() starts
AnalyzeBegin ==
    /\ pc = "start"
    /\ \E d \in Tables, n \in {"loaded", "None"} :
          /\ df' = d
          /\ nlp' = n
          /\ banks_todo' = unique(d)
    /\ bank_themes' = <<>>
    /\ bank_keywords' = <<>>
    /\ extractor_log' = <<>>
    /\ primary_keywords' = <<>>
    /\ tfidf_errors' = <<>>
    /\ pc' = "analyze"
    /\ UNCHANGED themes_col
    /\ UNCHANGED unit_vars
    /\ UNCHANGED stage_vars
    /\ UNCHANGED io_vars

\* one iteration of `for bank in df['bank'].unique()`; an exception that
\* extract_keywords_tfidf does not catch leaves the function
AnalyzeBank ==
    /\ pc = "analyze"
    /\ banks_todo # <<>>
    /\ LET bank == Head(banks_todo)
           reviews == bank_reviews(df, bank)
           processed_texts == [i \in DOMAIN reviews |-> preprocess_text(reviews[i])]
           fit == TfidfFit(processed_texts)
       IN  \E mean_scores \in [fit.features -> 1..MaxScore] :
              LET out == extract_keywords_tfidf(fit, mean_scores)
                  kws == IF UseFallback(out.keywords)
                         THEN extract_keywords_spacy(reviews)
                         ELSE out.keywords
              IN  IF out.raised
                  THEN /\ pc' = "raised"
                       /\ UNCHANGED <<banks_todo, bank_themes, bank_keywords,
                                      extractor_log, primary_keywords, tfidf_errors>>
                  ELSE /\ bank_keywords' = Append(bank_keywords, kws)
                       /\ primary_keywords' = Append(primary_keywords, out.keywords)
                       /\ tfidf_errors' = Append(tfidf_errors, fit.error)
                       /\ extractor_log' = Append(extractor_log,
                             IF UseFallback(out.keywords)
                             THEN <<"tfidf", "spacy">> ELSE <<"tfidf">>)
                       /\ bank_themes' = Append(bank_themes,
                             [bank |-> bank, themes |-> identify_themes(kws, bank)])
                       /\ banks_todo' = Tail(banks_todo)
                       /\ pc' = pc
    /\ UNCHANGED <<df, nlp, themes_col>>
    /\ UNCHANGED unit_vars
    /\ UNCHANGED stage_vars
    /\ UNCHANGED io_vars

---------------------------------------------------------------------------
(* assign_themes_to_reviews                                                *)

\* the index of bank_df after a reset_index: positions, not row labels
bank_index_reset(d, bank) ==
    1..Cardinality({idx \in DOMAIN d : d[idx].bank = bank})

\* df[df['bank'] == bank].index
bank_index(d, bank) == {idx \in DOMAIN d : d[idx].bank = bank}

\* '; '.join(matched_themes) without the fallback
themes_cell_join_only(matched) == join("; ", matched)

\* '; '.join(matched_themes) if matched_themes else 'Other'
themes_cell(matched) == IF matched # <<>> THEN join("; ", matched) ELSE "Other"

\* for bank, theme_data in bank_themes.items(): every row of the bank gets
\* its cell of the themes column
RECURSIVE AssignLoop(_, _)
AssignLoop(b, col) ==
    IF b > Len(bank_themes) THEN col
    ELSE LET theme_data == bank_themes[b]
             index == bank_index(df, theme_data.bank)
         IN  AssignLoop(b + 1,
                 [idx \in DOMAIN col |->
                     IF idx \in index
                     THEN themes_cell(assign_theme_to_review(df[idx].review,
                                                            theme_data.themes))
                     ELSE col[idx]])

\* a table the function works on in place of its copy
df_copy_alias(d) == [rows |-> d, aliased |-> TRUE]

\* df = df.copy(): a new table with the same rows
df_copy(d) == [rows |-> d, aliased |-> FALSE]

\* how many times the loops of assign_themes_to_reviews write the themes
\* cell of row idx
ThemeWrites(idx) ==
    Cardinality({b \in DOMAIN bank_themes :
                    idx \in bank_index(df, bank_themes[b].bank)})

\* assign_themes_to_reviews(table, bank_themes): the table it returns, the
\* table it was passed as the caller sees it afterwards, and the number of
\* writes to each themes cell after df['themes'] = ''
assign_themes_to_reviews(table) ==
    LET copy == df_copy(table)
        col == AssignLoop(1, [idx \in DOMAIN df |-> ""])
        out == [idx \in DOMAIN copy.rows |->
                   [themes |-> col[idx]] @@ copy.rows[idx]]
    IN  [arg |-> IF copy.aliased THEN out ELSE table,
         out |-> out,
         writes |-> [idx \in DOMAIN table |-> ThemeWrites(idx)]]

\* analyze_themes_by_bank has returned; assign_themes_to_reviews(df,
\* bank_themes) copies the table, sets df['themes'] = '' and tags every bank.
\* run_full_pipeline passes the table with the sentiment columns, main() of
\* thematic_analysis the table it loaded
AssignThemes ==
    /\ pc = "analyze"
    /\ banks_todo = <<>>
    /\ tagging' = assign_themes_to_reviews(IF stages # <<>> THEN sent_df ELSE df)
    /\ themes_col' = [idx \in DOMAIN df |-> tagging'.out[idx].themes]
    /\ pc' = "done"
    /\ UNCHANGED <<df, nlp, banks_todo, bank_themes, bank_keywords, extractor_log,
                   primary_keywords, tfidf_errors>>
    /\ UNCHANGED unit_vars
    /\ UNCHANGED <<pair_vars, theme_summary, sentiment_vars, run_vars, prep_vars>>
    /\ UNCHANGED io_vars

Next == AnalyzeBegin \/ AnalyzeBank \/ AssignThemes

Spec == Init /\ [][Next]_vars

---------------------------------------------------------------------------
(* Direct calls of identify_themes and assign_theme_to_review on one       *)
(* analyzer, over every keyword list within the bounds.                    *)

UnitInit ==
    /\ pc = "unit"
    /\ df = <<>>
    /\ nlp = "None"
    /\ banks_todo = <<>>
    /\ bank_themes = <<>>
    /\ bank_keywords = <<>>
    /\ extractor_log = <<>>
    /\ primary_keywords = <<>>
    /\ tfidf_errors = <<>>
    /\ themes_col = <<>>
    /\ keywords = <<>>
    /\ theme_keywords = <<>>
    /\ theme_keywords_again = <<>>
    /\ calls = 0
    /\ review_text = ""
    /\ matched_themes = <<>>
    /\ pair_idle
    /\ theme_summary = <<>>
    /\ sentiment_idle
    /\ run_idle
    /\ prep_idle
    /\ tagging = NoTagging
    /\ scrape_idle
    /\ db_idle

\* analyzer.identify_themes(keywords, bank)
IdentifyThemesCall ==
    /\ pc = "unit"
    /\ calls = 0
    /\ \E kws \in KeywordLists, bank \in Banks :
          /\ keywords' = kws
          /\ theme_keywords' = identify_themes(kws, bank)
    /\ calls' = 1
    /\ UNCHANGED <<pc, theme_keywords_again, review_text, matched_themes>>
    /\ UNCHANGED pipeline_vars
    /\ UNCHANGED stage_vars
    /\ UNCHANGED io_vars

\* the same call once more on the same analyzer
IdentifyThemesAgain ==
    /\ pc = "unit"
    /\ calls = 1
    /\ \E bank \in Banks : theme_keywords_again' = identify_themes(keywords, bank)
    /\ calls' = 2
    /\ UNCHANGED <<pc, keywords, theme_keywords, review_text, matched_themes>>
    /\ UNCHANGED pipeline_vars
    /\ UNCHANGED stage_vars
    /\ UNCHANGED io_vars

\* analyzer.assign_theme_to_review(review_text, theme_keywords)
AssignThemeCall ==
    /\ pc = "unit"
    /\ calls = 1
    /\ \E text \in UnitTexts :
          /\ review_text' = text
          /\ matched_themes' = assign_theme_to_review(text, theme_keywords)
    /\ pc' = "tagged"
    /\ UNCHANGED <<keywords, theme_keywords, theme_keywords_again, calls>>
    /\ UNCHANGED pipeline_vars
    /\ UNCHANGED stage_vars
    /\ UNCHANGED io_vars

UnitNext == IdentifyThemesCall \/ IdentifyThemesAgain \/ AssignThemeCall

UnitSpec == UnitInit /\ [][UnitNext]_vars

---------------------------------------------------------------------------
(* Two runs of the thematic analysis that differ only in the reviews of    *)
(* other banks: the first on the reviews of one bank alone, the second on  *)
(* the same reviews with rows of another bank before and after them.       *)

\* rows of other banks added for the second run
MaxOtherReviews == 1

OwnTexts == {"Crash!", "crash login"}

OtherTexts == {"Crash!", "login"}

\* the tables holding reviews of one bank only
SoloTables ==
    UNION {[1..n -> [bank : {b}, review : OwnTexts]] :
               n \in 1..MaxReviews, b \in Banks}

\* the rows of banks other than `bank`, up to n of them
OtherRows(bank, n) ==
    UNION {[1..k -> [bank : Banks \ {bank}, review : OtherTexts]] : k \in 0..n}

\* the tables that hold the rows of d in their order, and rows of other
\* banks before and after them
WithOtherBanks(d) ==
    {pp[1] \o d \o pp[2] :
        pp \in {qq \in OtherRows(d[1].bank, MaxOtherReviews)
                          \X OtherRows(d[1].bank, MaxOtherReviews) :
                    Len(qq[1]) + Len(qq[2]) <= MaxOtherReviews}}

PairInit ==
    /\ pc = "pair"
    /\ df = <<>>
    /\ nlp = "None"
    /\ banks_todo = <<>>
    /\ bank_themes = <<>>
    /\ bank_keywords = <<>>
    /\ extractor_log = <<>>
    /\ primary_keywords = <<>>
    /\ tfidf_errors = <<>>
    /\ themes_col = <<>>
    /\ keywords = <<>>
    /\ theme_keywords = <<>>
    /\ theme_keywords_again = <<>>
    /\ calls = 0
    /\ review_text = ""
    /\ matched_themes = <<>>
    /\ pair_idle
    /\ theme_summary = <<>>
    /\ sentiment_idle
    /\ run_idle
    /\ prep_idle
    /\ tagging = NoTagging
    /\ scrape_idle
    /\ db_idle

\* the first run: main() on a table with the reviews of one bank
FirstRun ==
    /\ pc = "pair"
    /\ \E d \in SoloTables, n \in {"loaded", "None"} :
          /\ df' = d
          /\ nlp' = n
          /\ banks_todo' = unique(d)
    /\ bank_themes' = <<>>
    /\ bank_keywords' = <<>>
    /\ extractor_log' = <<>>
    /\ primary_keywords' = <<>>
    /\ tfidf_errors' = <<>>
    /\ run' = 1
    /\ pc' = "analyze"
    /\ UNCHANGED <<themes_col, prev, theme_summary>>
    /\ UNCHANGED unit_vars
    /\ UNCHANGED sentiment_vars
    /\ UNCHANGED run_vars
    /\ UNCHANGED prep_vars
    /\ UNCHANGED tagging
    /\ UNCHANGED io_vars

\* the second run: main() once more, in the same installation, on a table
\* that differs from the first in the rows of other banks only
SecondRun ==
    /\ pc = "done"
    /\ run = 1
    /\ prev' = [df |-> df, bank_themes |-> bank_themes,
                bank_keywords |-> bank_keywords, themes_col |-> themes_col]
    /\ \E d \in WithOtherBanks(df) :
          /\ df' = d
          /\ banks_todo' = unique(d)
    /\ bank_themes' = <<>>
    /\ bank_keywords' = <<>>
    /\ extractor_log' = <<>>
    /\ primary_keywords' = <<>>
    /\ tfidf_errors' = <<>>
    /\ run' = 2
    /\ pc' = "analyze"
    /\ UNCHANGED <<nlp, themes_col, theme_summary>>
    /\ UNCHANGED unit_vars
    /\ UNCHANGED sentiment_vars
    /\ UNCHANGED run_vars
    /\ UNCHANGED prep_vars
    /\ UNCHANGED tagging
    /\ UNCHANGED io_vars

PairNext == FirstRun \/ AnalyzeBank \/ AssignThemes \/ SecondRun

PairSpec == PairInit /\ [][PairNext]_vars

---------------------------------------------------------------------------
(* The theme summary written at the end of main() and run_full_pipeline(), *)
(* for mappings whose themes hold more keywords than the summary shows.    *)

\* length of the keyword lists the summarised mappings are built from
MaxSummaryKeywords == 11

\* keywords[:10]
top_keywords_limit == 10

\* words reviews are made of: seeds of the taxonomy and two other words
SummaryWords ==
    <<"login", "access", "password", "authentication", "offline",
      "connection", "network", "error", "failed", "blocked", "device",
      "register", "crash", "good", "bug">>

\* the weight of the i-th of n keywords
WeightOf(style, i, n) ==
    CASE style = "flat" -> 1
      [] style = "falling" -> n - i + 1
      [] style = "rising" -> i
      [] OTHER -> 1 + (i % 2)

\* keyword lists of every length up to the bound, starting anywhere in the
\* word list, with equal, falling, rising or alternating weights
SummaryKeywordLists ==
    {[i \in 1..n |-> <<SummaryWords[((i + r - 1) % Len(SummaryWords)) + 1],
                       WeightOf(style, i, n)>>] :
        n \in 0..MaxSummaryKeywords, r \in {0, 4},
        style \in {"flat", "falling", "rising", "alternating"}}

\* the banks of a table in the order analyze_themes_by_bank meets them
BankOrders ==
    {<<>>} \cup {<<b>> : b \in Banks}
           \cup {bc \in Banks \X Banks : bc[1] # bc[2]}

SummaryInit ==
    /\ pc = "mapping"
    /\ df = <<>>
    /\ nlp = "None"
    /\ banks_todo = <<>>
    /\ bank_themes = <<>>
    /\ bank_keywords = <<>>
    /\ extractor_log = <<>>
    /\ primary_keywords = <<>>
    /\ tfidf_errors = <<>>
    /\ themes_col = <<>>
    /\ keywords = <<>>
    /\ theme_keywords = <<>>
    /\ theme_keywords_again = <<>>
    /\ calls = 0
    /\ review_text = ""
    /\ matched_themes = <<>>
    /\ pair_idle
    /\ theme_summary = <<>>
    /\ sentiment_idle
    /\ run_idle
    /\ prep_idle
    /\ tagging = NoTagging
    /\ scrape_idle
    /\ db_idle

\* analyze_themes_by_bank starts on a table with these banks
SummaryBegin ==
    /\ pc = "mapping"
    /\ banks_todo = <<>>
    /\ bank_themes = <<>>
    /\ \E order \in BankOrders :
          /\ banks_todo' = order
          /\ pc' = IF order = <<>> THEN "summary" ELSE pc
    /\ UNCHANGED <<df, nlp, bank_themes, bank_keywords, extractor_log,
                   primary_keywords, tfidf_errors, themes_col>>
    /\ UNCHANGED unit_vars
    /\ UNCHANGED stage_vars
    /\ UNCHANGED io_vars

\* one iteration of its loop, for the keyword list extraction gave the bank:
\* any list for the first bank, a short one for the banks after it
SummaryThemes ==
    /\ pc = "mapping"
    /\ banks_todo # <<>>
    /\ \E kws \in IF bank_themes = <<>> THEN SummaryKeywordLists
                    ELSE {k \in SummaryKeywordLists : Len(k) <= 1} :
          /\ bank_keywords' = Append(bank_keywords, kws)
          /\ bank_themes' = Append(bank_themes,
                [bank |-> Head(banks_todo),
                 themes |-> identify_themes(kws, Head(banks_todo))])
    /\ banks_todo' = Tail(banks_todo)
    /\ pc' = IF Tail(banks_todo) = <<>> THEN "summary" ELSE pc
    /\ UNCHANGED <<df, nlp, extractor_log, primary_keywords, tfidf_errors, themes_col>>
    /\ UNCHANGED unit_vars
    /\ UNCHANGED stage_vars
    /\ UNCHANGED io_vars

\* the whole list instead of its head
TopKeywords_all(kws) == kws

\* keywords[:10]
TopKeywords(kws) ==
    SubSeq(kws, 1, IF Len(kws) < top_keywords_limit THEN Len(kws)
                   ELSE top_keywords_limit)

\* the summary row of one theme of one bank
SummaryRow(bank, entry) ==
    LET top == TopKeywords(entry.keywords)
    IN  [bank |-> bank,
         theme |-> entry.theme,
         keyword_count |-> Len(entry.keywords),
         top_keywords |-> join(", ", [i \in DOMAIN top |-> top[i][1]])]

\* for bank, theme_data in bank_themes.items():
\*     for theme, keywords in theme_data['themes'].items(): ...
RECURSIVE SummaryRows(_)
SummaryRows(b) ==
    IF b > Len(bank_themes) THEN <<>>
    ELSE [t \in DOMAIN bank_themes[b].themes |->
             SummaryRow(bank_themes[b].bank, bank_themes[b].themes[t])]
         \o SummaryRows(b + 1)

\* "Theme summary" / "Save theme summary"
ThemeSummary ==
    /\ pc = "summary"
    /\ theme_summary' = SummaryRows(1)
    /\ pc' = "summarized"
    /\ UNCHANGED pipeline_vars
    /\ UNCHANGED unit_vars
    /\ UNCHANGED pair_vars
    /\ UNCHANGED sentiment_vars
    /\ UNCHANGED run_vars
    /\ UNCHANGED prep_vars
    /\ UNCHANGED tagging
    /\ UNCHANGED io_vars

SummaryNext == SummaryBegin \/ SummaryThemes \/ ThemeSummary

SummarySpec == SummaryInit /\ [][SummaryNext]_vars

---------------------------------------------------------------------------
(* The sentiment script: an analyzer is constructed, then either single    *)
(* texts are analysed or a table is analysed and aggregated, as in main(). *)

SentimentTexts == {NaN, "", " ", "Good app", " App crash! "}

BatchTexts == {"Good app", "App crash!"}

Ratings == {1, 5}

SentimentTables ==
    UNION {[1..n -> [bank : Banks, rating : Ratings, review : BatchTexts]] :
               n \in 0..MaxReviews}

\* what the DistilBERT pipeline answers to the texts of a table: POSITIVE to
\* all, POSITIVE or NEGATIVE by the text, or an exception on one of them
ReplyModels ==
    {[t \in BatchTexts |-> [raised |-> FALSE, label |-> "POSITIVE", score |-> 99]],
     [t \in BatchTexts |->
         IF t = "Good app" THEN [raised |-> FALSE, label |-> "POSITIVE", score |-> 99]
         ELSE [raised |-> FALSE, label |-> "NEGATIVE", score |-> 75]],
     [t \in BatchTexts |->
         IF t = "Good app" THEN [raised |-> FALSE, label |-> "POSITIVE", score |-> 99]
         ELSE [raised |-> TRUE, label |-> "", score |-> 0]]}

SentimentInit ==
    /\ pc = "sentiment"
    /\ df = <<>>
    /\ nlp = "None"
    /\ banks_todo = <<>>
    /\ bank_themes = <<>>
    /\ bank_keywords = <<>>
    /\ extractor_log = <<>>
    /\ primary_keywords = <<>>
    /\ tfidf_errors = <<>>
    /\ themes_col = <<>>
    /\ keywords = <<>>
    /\ theme_keywords = <<>>
    /\ theme_keywords_again = <<>>
    /\ calls = 0
    /\ review_text = ""
    /\ matched_themes = <<>>
    /\ pair_idle
    /\ theme_summary = <<>>
    /\ sentiment_idle
    /\ run_idle
    /\ prep_idle
    /\ tagging = NoTagging
    /\ scrape_idle
    /\ db_idle

\* analyzer = SentimentAnalyzer(use_distilbert=...)
ConstructAnalyzer ==
    /\ pc = "sentiment"
    /\ \E use_distilbert \in BOOLEAN, load_ok \in BOOLEAN :
          analyzer' = SentimentAnalyzer(use_distilbert, load_ok)
    /\ pc' = "ready"
    /\ UNCHANGED <<sent_text, sent_result, sent_invoked, sent_df, agg_data, call_log>>
    /\ UNCHANGED <<pipeline_vars, unit_vars, pair_vars, theme_summary>>
    /\ UNCHANGED run_vars
    /\ UNCHANGED prep_vars
    /\ UNCHANGED tagging
    /\ UNCHANGED io_vars

\* analyzer.analyze_text(text), in whatever state earlier calls left the
\* analyzer
AnalyzeText ==
    /\ pc = "ready"
    /\ \E text \in SentimentTexts, reply \in DistilbertReplies :
          LET out == analyze_text(analyzer, text, reply)
          IN  /\ sent_text' = text
              /\ sent_result' = out.result
              /\ sent_invoked' = out.invoked
              /\ analyzer' = out.analyzer
              /\ call_log' = <<[invoked |-> out.invoked,
                                use_distilbert |-> out.analyzer.use_distilbert]>>
    /\ UNCHANGED <<pc, sent_df, agg_data>>
    /\ UNCHANGED <<pipeline_vars, unit_vars, pair_vars, theme_summary>>
    /\ UNCHANGED run_vars
    /\ UNCHANGED prep_vars
    /\ UNCHANGED tagging
    /\ UNCHANGED io_vars

\* sentiment_df = analyzer.analyze_batch(df['review']) and the concat of the
\* table with it
AnalyzeBatch ==
    /\ pc = "ready"
    /\ sent_result = NoResult
    /\ \E d \in SentimentTables, replies \in ReplyModels :
          LET out == analyze_batch(analyzer,
                                   [i \in DOMAIN d |-> d[i].review], 1, replies)
          IN  /\ sent_df' = [i \in DOMAIN d |->
                    [bank |-> d[i].bank, rating |-> d[i].rating,
                     review |-> d[i].review,
                     sentiment_label |-> out.results[i].sentiment_label,
                     sentiment_score |-> out.results[i].sentiment_score]]
              /\ analyzer' = out.analyzer
              /\ call_log' = out.log
    /\ pc' = "batched"
    /\ UNCHANGED <<sent_text, sent_result, sent_invoked, agg_data>>
    /\ UNCHANGED <<pipeline_vars, unit_vars, pair_vars, theme_summary>>
    /\ UNCHANGED run_vars
    /\ UNCHANGED prep_vars
    /\ UNCHANGED tagging
    /\ UNCHANGED io_vars

\* agg_df = aggregate_sentiment_by_bank_and_rating(result_df)
Aggregate ==
    /\ pc = "batched"
    /\ agg_data' = aggregate_sentiment_by_bank_and_rating(sent_df)
    /\ pc' = "aggregated"
    /\ UNCHANGED <<analyzer, sent_text, sent_result, sent_invoked, sent_df, call_log>>
    /\ UNCHANGED <<pipeline_vars, unit_vars, pair_vars, theme_summary>>
    /\ UNCHANGED run_vars
    /\ UNCHANGED prep_vars
    /\ UNCHANGED tagging
    /\ UNCHANGED io_vars

SentimentNext == ConstructAnalyzer \/ AnalyzeText \/ AnalyzeBatch \/ Aggregate

SentimentSpec == SentimentInit /\ [][SentimentNext]_vars

---------------------------------------------------------------------------
(* run_full_pipeline and its caller main() (analysis_pipeline.py).         *)

\* the columns of the cleaned CSV
CsvColumns == {"review", "rating", "date", "bank", "source"}

\* the tables of the cleaned CSV, header-only table included
PipelineTables ==
    UNION {[1..n -> [bank : Banks, rating : {5}, review : BatchTexts]] :
               n \in 0..MaxReviews}

\* a table without one of its columns
WithoutColumn(t, col) ==
    [i \in DOMAIN t |->
        [bank |-> IF col = "bank" THEN NaN ELSE t[i].bank,
         rating |-> t[i].rating,
         review |-> IF col = "review" THEN NaN ELSE t[i].review]]

\* the states of the input file: missing, empty (no header), a table, or a
\* table that lacks the review or the bank column
InputFiles ==
    {NoFile, [exists |-> TRUE, columns |-> {}, rows |-> <<>>]}
    \cup {[exists |-> TRUE, columns |-> CsvColumns, rows |-> t] : t \in PipelineTables}
    \cup {[exists |-> TRUE, columns |-> CsvColumns \ {col},
           rows |-> WithoutColumn(t, col)] :
              t \in PipelineTables, col \in {"review", "bank"}}

\* pd.read_csv(input_file): the exception it raises ("" if none)
read_csv(file) ==
    IF ~file.exists THEN "FileNotFoundError"
    ELSE IF file.columns = {} THEN "EmptyDataError"
    ELSE ""

\* a load step without its except clause
CaughtOnLoad_nothing(exc) == FALSE

\* except FileNotFoundError
CaughtOnLoad(exc) == exc = "FileNotFoundError"

PipelineInit ==
    /\ pc = "pipeline"
    /\ df = <<>>
    /\ nlp = "None"
    /\ banks_todo = <<>>
    /\ bank_themes = <<>>
    /\ bank_keywords = <<>>
    /\ extractor_log = <<>>
    /\ primary_keywords = <<>>
    /\ tfidf_errors = <<>>
    /\ themes_col = <<>>
    /\ keywords = <<>>
    /\ theme_keywords = <<>>
    /\ theme_keywords_again = <<>>
    /\ calls = 0
    /\ review_text = ""
    /\ matched_themes = <<>>
    /\ pair_idle
    /\ theme_summary = <<>>
    /\ sentiment_idle
    /\ run_idle
    /\ prep_idle
    /\ tagging = NoTagging
    /\ scrape_idle
    /\ db_idle

\* "Step 1: Load data" and the added review_id column
LoadData ==
    /\ pc = "pipeline"
    /\ stages' = Append(stages, "load")
    /\ \E file \in InputFiles :
          /\ input_file' = file
          /\ IF read_csv(file) = ""
             THEN /\ sent_df' = [i \in DOMAIN file.rows |->
                        [bank |-> file.rows[i].bank, rating |-> file.rows[i].rating,
                         review |-> file.rows[i].review,
                         sentiment_label |-> "", sentiment_score |-> 0]]
                  /\ columns' = file.columns \cup {"review_id"}
                  /\ pc' = "loaded"
                  /\ UNCHANGED <<result_df, exception>>
             ELSE /\ IF CaughtOnLoad(read_csv(file))
                     THEN result_df' = "None" /\ pc' = "returned" /\ UNCHANGED exception
                     ELSE exception' = read_csv(file) /\ pc' = "raised" /\ UNCHANGED result_df
                  /\ UNCHANGED <<sent_df, columns>>
    /\ UNCHANGED <<written, main_branch>>
    /\ UNCHANGED <<analyzer, sent_text, sent_result, sent_invoked, agg_data, call_log>>
    /\ UNCHANGED <<pipeline_vars, unit_vars, pair_vars, theme_summary>>
    /\ UNCHANGED prep_vars
    /\ UNCHANGED tagging
    /\ UNCHANGED io_vars

\* "Step 2: Sentiment Analysis": the analyzer is constructed, the review
\* column is analysed and the result is joined to the table; the coverage
\* is computed from the sentiment_label column
SentimentStage ==
    /\ pc = "loaded"
    /\ stages' = Append(stages, "sentiment")
    /\ \E load_ok \in BOOLEAN, replies \in ReplyModels :
          LET an == SentimentAnalyzer(TRUE, load_ok)
              out == analyze_batch(an, [i \in DOMAIN sent_df |-> sent_df[i].review],
                                   1, replies)
          IN  IF "review" \notin columns
              THEN /\ analyzer' = an
                   /\ exception' = "KeyError"
                   /\ pc' = "raised"
                   /\ UNCHANGED <<sent_df, columns, call_log>>
              ELSE /\ analyzer' = out.analyzer
                   /\ call_log' = out.log
                   /\ sent_df' = [i \in DOMAIN sent_df |->
                         [sent_df[i] EXCEPT
                             !.sentiment_label = out.results[i].sentiment_label,
                             !.sentiment_score = out.results[i].sentiment_score]]
                   /\ columns' = IF sent_df = <<>> THEN columns
                                 ELSE columns \cup {"sentiment_label", "sentiment_score"}
                   /\ IF sent_df = <<>>
                      THEN exception' = "KeyError" /\ pc' = "raised"
                      ELSE pc' = "sentiment" /\ UNCHANGED exception
    /\ UNCHANGED <<input_file, written, result_df, main_branch>>
    /\ UNCHANGED <<sent_text, sent_result, sent_invoked, agg_data>>
    /\ UNCHANGED <<pipeline_vars, unit_vars, pair_vars, theme_summary>>
    /\ UNCHANGED prep_vars
    /\ UNCHANGED tagging
    /\ UNCHANGED io_vars

\* "Step 3: Thematic Analysis": entry of analyze_themes_by_bank(df)
ThematicStage ==
    /\ pc = "sentiment"
    /\ stages' = Append(stages, "thematic")
    /\ IF "bank" \notin columns
       THEN /\ exception' = "KeyError"
            /\ pc' = "raised"
            /\ UNCHANGED <<df, nlp, banks_todo>>
       ELSE /\ \E n \in {"loaded", "None"} : nlp' = n
            /\ df' = [i \in DOMAIN sent_df |->
                         [bank |-> sent_df[i].bank, review |-> sent_df[i].review]]
            /\ banks_todo' = unique(df')
            /\ pc' = "analyze"
            /\ UNCHANGED exception
    /\ UNCHANGED <<bank_themes, bank_keywords, extractor_log, primary_keywords,
                   tfidf_errors, themes_col>>
    /\ UNCHANGED <<input_file, columns, written, result_df, main_branch>>
    /\ UNCHANGED <<unit_vars, pair_vars, theme_summary, sentiment_vars>>
    /\ UNCHANGED prep_vars
    /\ UNCHANGED tagging
    /\ UNCHANGED io_vars

\* "Step 4: Prepare final output": the themes column is in the table, the
\* missing output columns are added, the output file is written (the
\* directory or the file may not be writable) and the summary is printed
PrepareOutput ==
    /\ pc = "done"
    /\ stages # <<>>
    /\ stages' = Append(stages, "output")
    /\ columns' = columns \cup {"themes", "rating", "date", "source"}
    /\ \E io_ok \in BOOLEAN :
          IF io_ok
          THEN /\ written' = written \cup {"reviews_analyzed.csv"}
               /\ pc' = "saved"
               /\ UNCHANGED exception
          ELSE /\ exception' = "OSError"
               /\ pc' = "raised"
               /\ UNCHANGED written
    /\ UNCHANGED <<input_file, result_df, main_branch>>
    /\ UNCHANGED <<pipeline_vars, unit_vars, pair_vars, theme_summary, sentiment_vars>>
    /\ UNCHANGED prep_vars
    /\ UNCHANGED tagging
    /\ UNCHANGED io_vars

\* "Sentiment aggregation": the table has both sentiment columns here
AggregationStage ==
    /\ pc = "saved"
    /\ stages' = Append(stages, "aggregation")
    /\ IF {"sentiment_score", "sentiment_label"} \subseteq columns
       THEN /\ agg_data' = aggregate_sentiment_by_bank_and_rating(sent_df)
            /\ written' = written \cup {"sentiment_aggregation.csv"}
       ELSE UNCHANGED <<agg_data, written>>
    /\ pc' = "summary"
    /\ UNCHANGED <<input_file, columns, result_df, exception, main_branch>>
    /\ UNCHANGED <<analyzer, sent_text, sent_result, sent_invoked, sent_df, call_log>>
    /\ UNCHANGED <<pipeline_vars, unit_vars, pair_vars, theme_summary>>
    /\ UNCHANGED prep_vars
    /\ UNCHANGED tagging
    /\ UNCHANGED io_vars

\* the theme summary is written if it has rows, and df_output is returned
ReturnOutput ==
    /\ pc = "summarized"
    /\ stages # <<>>
    /\ stages' = Append(stages, "summary")
    /\ written' = IF theme_summary # <<>> THEN written \cup {"theme_summary.csv"}
                  ELSE written
    /\ result_df' = "df_output"
    /\ pc' = "returned"
    /\ UNCHANGED <<input_file, columns, exception, main_branch>>
    /\ UNCHANGED <<pipeline_vars, unit_vars, pair_vars, theme_summary, sentiment_vars>>
    /\ UNCHANGED prep_vars
    /\ UNCHANGED tagging
    /\ UNCHANGED io_vars

\* main(): result_df = run_full_pipeline(), then the test for None; an
\* exception of run_full_pipeline goes through main() to the interpreter
PipelineMain ==
    /\ pc \in {"returned", "raised"}
    /\ stages # <<>>
    /\ main_branch' = IF pc = "raised" THEN "traceback"
                      ELSE IF result_df # "None" THEN "complete" ELSE "failed"
    /\ pc' = "exit"
    /\ UNCHANGED <<input_file, columns, stages, written, result_df, exception>>
    /\ UNCHANGED <<pipeline_vars, unit_vars, pair_vars, theme_summary, sentiment_vars>>
    /\ UNCHANGED prep_vars
    /\ UNCHANGED tagging
    /\ UNCHANGED io_vars

PipelineNext ==
    \/ LoadData
    \/ SentimentStage
    \/ ThematicStage
    \/ AnalyzeBank
    \/ AssignThemes
    \/ PrepareOutput
    \/ AggregationStage
    \/ ThemeSummary
    \/ ReturnOutput
    \/ PipelineMain

PipelineSpec == PipelineInit /\ [][PipelineNext]_vars

---------------------------------------------------------------------------
(* preprocess_reviews.py: main() up to handle_missing_data.                *)

MaxRawRows == 2

\* a missing rating (the NaN of the rating column)
MissingRating == 0 - 1

RawReviews == {NaN, "  ", "Good app"}

RawRatings == {MissingRating, 3, 6}

RawBanks == {NaN, "Bank of Abyssinia"}

RawDates == {NaN, "5/1/2024", "soon"}

\* the tables of n records pd.read_csv can load from the raw file; index is
\* the row label pandas gives each record, which every later selection keeps
RawTables(n) ==
    {[i \in 1..n |-> [index |-> i - 1, review |-> t[i].review,
                      rating |-> t[i].rating, date |-> t[i].date,
                      bank |-> t[i].bank]] :
        t \in [1..n -> [review : RawReviews, rating : RawRatings,
                        date : RawDates, bank : RawBanks]]}

\* df.drop_duplicates(subset=['review', 'bank'], keep='first')
remove_duplicates(d) ==
    LET first == {i \in DOMAIN d :
                     \A j \in 1..(i - 1) :
                         d[j].review # d[i].review \/ d[j].bank # d[i].bank}
        RECURSIVE Keep(_)
        Keep(i) == IF i > Len(d) THEN <<>>
                   ELSE (IF i \in first THEN <<d[i]>> ELSE <<>>) \o Keep(i + 1)
    IN  Keep(1)

\* the dtype pd.read_csv gives the review column: a column with no text in
\* any of its rows is a float64 column of NaN
review_dtype(d) ==
    IF d # <<>> /\ \A i \in DOMAIN d : isna(d[i].review)
    THEN "float64" ELSE "object"

\* df['review'].notna() & (df['review'].str.strip() != '')
HasReviewText(row) == ~isna(row.review) /\ strip(row.review) # ""

\* (df['rating'] >= 1) & (df['rating'] <= 5)
ValidRating(row) == row.rating >= 1 /\ row.rating <= 5

\* handle_missing_data(df): the exception it raises ("" if none) and the
\* table it returns; the .str accessor exists on object columns only
handle_missing_data(d) ==
    IF review_dtype(d) # "object"
    THEN [raised |-> "AttributeError", df |-> <<>>]
    ELSE LET with_text == SelectSeq(d, HasReviewText)
             filled == [i \in DOMAIN with_text |->
                           [with_text[i] EXCEPT
                               !.rating = IF @ = MissingRating THEN 0 ELSE @]]
             rated == SelectSeq(filled, ValidRating)
         IN  [raised |-> "",
              df |-> [i \in DOMAIN rated |->
                         [rated[i] EXCEPT
                             !.date = IF isna(@) THEN "" ELSE @,
                             !.bank = IF isna(@) THEN "Unknown" ELSE @]]]

DigitValue ==
    ("0" :> 0) @@ ("1" :> 1) @@ ("2" :> 2) @@ ("3" :> 3) @@ ("4" :> 4) @@
    ("5" :> 5) @@ ("6" :> 6) @@ ("7" :> 7) @@ ("8" :> 8) @@ ("9" :> 9)

DigitString == <<"0", "1", "2", "3", "4", "5", "6", "7", "8", "9">>

AllDigits(s) == s # "" /\ \A i \in 1..Len(s) : IsDigit(Ch(s, i))

\* int(s) for a string of digits
RECURSIVE ToInt(_)
ToInt(s) ==
    IF s = "" THEN 0
    ELSE ToInt(SubSeq(s, 1, Len(s) - 1)) * 10 + DigitValue[Ch(s, Len(s))]

\* the number n written with `width` digits, zeros in front
RECURSIVE Padded(_, _)
Padded(n, width) ==
    IF width = 0 THEN ""
    ELSE Padded(n \div 10, width - 1) \o DigitString[(n % 10) + 1]

IsLeapYear(y) == (y % 4 = 0 /\ y % 100 # 0) \/ y % 400 = 0

DaysInMonth(y, m) ==
    IF m = 2 THEN (IF IsLeapYear(y) THEN 29 ELSE 28)
    ELSE IF m \in {4, 6, 9, 11} THEN 30 ELSE 31

\* what a strptime directive accepts: %Y four digits, the others one or two
Directive(d, field) ==
    /\ AllDigits(field)
    /\ IF d = "Y" THEN Len(field) = 4
       ELSE /\ Len(field) \in {1, 2}
            /\ IF d = "m" THEN ToInt(field) \in 1..12
               ELSE IF d = "d" THEN ToInt(field) \in 1..31
               ELSE IF d = "H" THEN ToInt(field) \in 0..23
               ELSE IF d = "M" THEN ToInt(field) \in 0..59
               ELSE ToInt(field) \in 0..61

\* the formats parse_date tries, in its order: the separator and the order
\* of the date fields, and whether a time of day follows
date_formats ==
    <<[sep |-> "-", fields |-> <<"Y", "m", "d">>, time |-> FALSE],
      [sep |-> "-", fields |-> <<"Y", "m", "d">>, time |-> TRUE],
      [sep |-> "/", fields |-> <<"d", "m", "Y">>, time |-> FALSE],
      [sep |-> "/", fields |-> <<"m", "d", "Y">>, time |-> FALSE],
      [sep |-> "/", fields |-> <<"Y", "m", "d">>, time |-> FALSE],
      [sep |-> "-", fields |-> <<"d", "m", "Y">>, time |-> FALSE],
      [sep |-> "-", fields |-> <<"m", "d", "Y">>, time |-> FALSE]>>

\* the value of the field of directive d in the parts of a date
FieldOf(fmt, parts, d) ==
    ToInt(parts[CHOOSE k \in 1..3 : fmt.fields[k] = d])

\* datetime.strptime(date_str, fmt): whether it succeeds, and the date
strptime(date_str, fmt) ==
    LET halves == SplitOn(date_str, " ", 1, "")
        date_part == IF fmt.time THEN halves[1] ELSE date_str
        parts == SplitOn(date_part, fmt.sep, 1, "")
        clock == IF fmt.time /\ Len(halves) = 2
                 THEN SplitOn(halves[2], ":", 1, "") ELSE <<>>
        shaped == /\ fmt.time => /\ Len(halves) = 2
                                 /\ Len(clock) = 3
                                 /\ Directive("H", clock[1])
                                 /\ Directive("M", clock[2])
                                 /\ Directive("S", clock[3])
                  /\ Len(parts) = 3
                  /\ \A k \in 1..3 : Directive(fmt.fields[k], parts[k])
    IN  IF shaped /\ FieldOf(fmt, parts, "d")
                        <= DaysInMonth(FieldOf(fmt, parts, "Y"), FieldOf(fmt, parts, "m"))
        THEN [ok |-> TRUE, year |-> FieldOf(fmt, parts, "Y"),
              month |-> FieldOf(fmt, parts, "m"), day |-> FieldOf(fmt, parts, "d")]
        ELSE [ok |-> FALSE, year |-> 0, month |-> 0, day |-> 0]

\* dt.strftime('%Y-%m-%d')
strftime(dt) ==
    Padded(dt.year, 4) \o "-" \o Padded(dt.month, 2) \o "-" \o Padded(dt.day, 2)

\* pd.to_datetime(date_str) for the strings no format accepts: those the
\* pandas parser reads, with the date it gives; it raises for the others
pd_to_datetime == ("Jan 5, 2024" :> "2024-01-05")

\* except: return ''
ParseFailure(date_str) == ""

\* parse_date(date_str)
parse_date(v) ==
    IF isna(v) \/ v = "" THEN ""
    ELSE LET date_str == strip(v)
             hits == {k \in DOMAIN date_formats : strptime(date_str, date_formats[k]).ok}
         IN  IF hits # {}
             THEN strftime(strptime(date_str,
                      date_formats[CHOOSE k \in hits : \A j \in hits : k <= j]))
             ELSE IF date_str \in DOMAIN pd_to_datetime
                  THEN pd_to_datetime[date_str]
                  ELSE ParseFailure(date_str)

\* normalize_dates(df): df['date'] = df['date'].apply(parse_date)
normalize_dates(d) ==
    [i \in DOMAIN d |-> [d[i] EXCEPT !.date = parse_date(@)]]

\* the number of rows of d that satisfy Test
CountRows(d, Test(_)) == Len(SelectSeq(d, Test))

\* calculate_data_quality_metrics(df); the percentage is the exact fraction
calculate_data_quality_metrics(d) ==
    LET total == Len(d)
        missing_review_text ==
            CountRows(d, LAMBDA r : isna(r.review) \/ strip(r.review) = "")
        missing_rating ==
            CountRows(d, LAMBDA r : r.rating = MissingRating \/ r.rating = 0)
        missing_date == CountRows(d, LAMBDA r : isna(r.date) \/ r.date = "")
        missing_bank == CountRows(d, LAMBDA r : isna(r.bank))
    IN  [total_reviews |-> total,
         missing_review_text |-> missing_review_text,
         missing_rating |-> missing_rating,
         missing_date |-> missing_date,
         missing_bank |-> missing_bank,
         missing_data_percentage |->
             IF total > 0
             THEN [num |-> (missing_review_text + missing_rating
                            + missing_date + missing_bank) * 100,
                   den |-> total * 4]
             ELSE [num |-> 0, den |-> 1]]

PreprocessInit ==
    /\ pc = "preprocess"
    /\ df = <<>>
    /\ nlp = "None"
    /\ banks_todo = <<>>
    /\ bank_themes = <<>>
    /\ bank_keywords = <<>>
    /\ extractor_log = <<>>
    /\ primary_keywords = <<>>
    /\ tfidf_errors = <<>>
    /\ themes_col = <<>>
    /\ keywords = <<>>
    /\ theme_keywords = <<>>
    /\ theme_keywords_again = <<>>
    /\ calls = 0
    /\ review_text = ""
    /\ matched_themes = <<>>
    /\ pair_idle
    /\ theme_summary = <<>>
    /\ sentiment_idle
    /\ run_idle
    /\ prep_idle
    /\ tagging = NoTagging
    /\ scrape_idle
    /\ db_idle

\* df = load_raw_data(); main() returns when there is no row
LoadRawData ==
    /\ pc = "preprocess"
    /\ \E n \in 0..MaxRawRows :
          \E t \in RawTables(n) :
             /\ raw_df' = t
             /\ clean_df' = t
             /\ pc' = IF Len(t) = 0 THEN "no_data" ELSE "raw"
    /\ UNCHANGED <<prep_exception, metrics, cleaned_csv>>
    /\ UNCHANGED <<pipeline_vars, unit_vars, pair_vars, theme_summary,
                   sentiment_vars, run_vars, tagging>>
    /\ UNCHANGED io_vars

\* df = remove_duplicates(df)
RemoveDuplicates ==
    /\ pc = "raw"
    /\ clean_df' = remove_duplicates(clean_df)
    /\ pc' = "deduplicated"
    /\ UNCHANGED <<raw_df, prep_exception, metrics, cleaned_csv>>
    /\ UNCHANGED <<pipeline_vars, unit_vars, pair_vars, theme_summary,
                   sentiment_vars, run_vars, tagging>>
    /\ UNCHANGED io_vars

\* df = handle_missing_data(df)
HandleMissingData ==
    /\ pc = "deduplicated"
    /\ LET out == handle_missing_data(clean_df)
       IN  IF out.raised # ""
           THEN /\ prep_exception' = out.raised
                /\ pc' = "raised"
                /\ UNCHANGED clean_df
           ELSE /\ clean_df' = out.df
                /\ pc' = "cleaned"
                /\ UNCHANGED prep_exception
    /\ UNCHANGED <<raw_df, metrics, cleaned_csv>>
    /\ UNCHANGED <<pipeline_vars, unit_vars, pair_vars, theme_summary,
                   sentiment_vars, run_vars, tagging>>
    /\ UNCHANGED io_vars

\* df = normalize_dates(df), and the columns put in their order
NormalizeDates ==
    /\ pc = "cleaned"
    /\ clean_df' = normalize_dates(clean_df)
    /\ pc' = "normalized"
    /\ UNCHANGED <<raw_df, prep_exception, metrics, cleaned_csv>>
    /\ UNCHANGED <<pipeline_vars, unit_vars, pair_vars, theme_summary,
                   sentiment_vars, run_vars, tagging>>
    /\ UNCHANGED io_vars

\* metrics = calculate_data_quality_metrics(df), and the quality report
QualityMetrics ==
    /\ pc = "normalized"
    /\ metrics' = calculate_data_quality_metrics(clean_df)
    /\ pc' = "reported"
    /\ UNCHANGED <<raw_df, clean_df, prep_exception, cleaned_csv>>
    /\ UNCHANGED <<pipeline_vars, unit_vars, pair_vars, theme_summary,
                   sentiment_vars, run_vars, tagging>>
    /\ UNCHANGED io_vars

\* df.to_csv(output_file, index=False, encoding='utf-8')
SaveCleaned ==
    /\ pc = "reported"
    /\ cleaned_csv' = clean_df
    /\ pc' = "saved_cleaned"
    /\ UNCHANGED <<raw_df, clean_df, prep_exception, metrics>>
    /\ UNCHANGED <<pipeline_vars, unit_vars, pair_vars, theme_summary,
                   sentiment_vars, run_vars, tagging>>
    /\ UNCHANGED io_vars

PreprocessNext ==
    \/ LoadRawData
    \/ RemoveDuplicates
    \/ HandleMissingData
    \/ NormalizeDates
    \/ QualityMetrics
    \/ SaveCleaned

PreprocessSpec == PreprocessInit /\ [][PreprocessNext]_vars

---------------------------------------------------------------------------
(* scrape_app_reviews (scrape_reviews.py), one app, against a store that   *)
(* answers every fetch with a page of its reviews or with an error. The    *)
(* reviews of the app are numbered in the store's order; a token is the    *)
(* number of reviews that come before the page it asks for.                *)

\* the largest target_count
MaxTarget == 3

\* the largest page of the store (count=200 in the calls of reviews())
MaxPage == 2

max_attempts == 10

ScrapeInit ==
    /\ pc = "scrape"
    /\ df = <<>>
    /\ nlp = "None"
    /\ banks_todo = <<>>
    /\ bank_themes = <<>>
    /\ bank_keywords = <<>>
    /\ extractor_log = <<>>
    /\ primary_keywords = <<>>
    /\ tfidf_errors = <<>>
    /\ themes_col = <<>>
    /\ keywords = <<>>
    /\ theme_keywords = <<>>
    /\ theme_keywords_again = <<>>
    /\ calls = 0
    /\ review_text = ""
    /\ matched_themes = <<>>
    /\ pair_idle
    /\ theme_summary = <<>>
    /\ sentiment_idle
    /\ run_idle
    /\ prep_idle
    /\ tagging = NoTagging
    /\ scrape_idle
    /\ db_idle

\* scrape_app_reviews(app_id, app_name, target_count) is entered
ScrapeBegin ==
    /\ pc = "scrape"
    /\ \E t \in 1..MaxTarget : target_count' = t
    /\ all_reviews' = <<>>
    /\ continuation_token' = NoToken
    /\ attempts' = 0
    /\ pc' = "scraping"
    /\ UNCHANGED <<fetches, sent_token, last_token, scraped>>
    /\ UNCHANGED <<pipeline_vars, unit_vars, stage_vars, db_vars>>

\* while len(all_reviews) < target_count and attempts < max_attempts
LoopCondition == Len(all_reviews) < target_count /\ attempts < max_attempts

\* if continuation_token
HasToken(token) == token # NoToken

\* the number of reviews before the page a call asks for: the call without
\* a token asks for the first page
PositionOf(token) == IF HasToken(token) THEN token ELSE 0

\* the page of n reviews that follows the first `position` reviews
Page(position, n) == [k \in 1..n |-> position + k]

\* the handler of a failed fetch when it forgets the token
TokenAfterError_reset(token) == NoToken

\* a fetch that raises assigns nothing: the token is the one it was
TokenAfterError(token) == token

\* one turn of the loop: reviews() raises, or it returns a page and the
\* token of the next one, or a page and no token
FetchPage ==
    /\ pc = "scraping"
    /\ LoopCondition
    /\ fetches' = fetches + 1
    /\ sent_token' = continuation_token
    /\ \E raised \in BOOLEAN, n \in 0..MaxPage, more \in BOOLEAN :
          IF raised
          THEN /\ n = 0
               /\ more
               /\ continuation_token' = TokenAfterError(continuation_token)
               /\ attempts' = attempts + 1
               /\ UNCHANGED <<all_reviews, last_token, pc>>
          ELSE LET position == PositionOf(continuation_token)
                   token == IF more THEN position + n ELSE NoToken
               IN  /\ all_reviews' = all_reviews \o Page(position, n)
                   /\ continuation_token' = token
                   /\ last_token' = token
                   /\ IF HasToken(token)
                      THEN attempts' = attempts + 1 /\ UNCHANGED pc
                      ELSE pc' = "collected" /\ UNCHANGED attempts
    /\ UNCHANGED <<target_count, scraped>>
    /\ UNCHANGED <<pipeline_vars, unit_vars, stage_vars, db_vars>>

\* the list without its cut to the target count
Truncated_whole(list, n) == list

\* all_reviews[:target_count]
Truncated(list, n) == SubSeq(list, 1, IF Len(list) < n THEN Len(list) ELSE n)

\* the loop is left, by its condition or by the break, and the list returned
ReturnReviews ==
    /\ \/ pc = "collected"
       \/ pc = "scraping" /\ ~LoopCondition
    /\ scraped' = Truncated(all_reviews, target_count)
    /\ pc' = "scrape_done"
    /\ UNCHANGED <<target_count, all_reviews, continuation_token, attempts,
                   fetches, sent_token, last_token>>
    /\ UNCHANGED <<pipeline_vars, unit_vars, stage_vars, db_vars>>

ScrapeNext == ScrapeBegin \/ FetchPage \/ ReturnReviews

ScrapeSpec == ScrapeInit /\ [][ScrapeNext]_vars

\* the loop's turns are taken as long as there is one to take
ScrapeFairSpec == ScrapeSpec /\ WF_vars(ScrapeNext)

---------------------------------------------------------------------------
(* The database scripts: the tables of create_tables.py, and               *)
(* get_or_create_bank and insert_reviews_from_csv of insert_reviews.py.    *)
(* Statements run in the transaction psycopg2 opens on the connection;     *)
(* what they insert is in the tables for others once it is committed.      *)

\* the largest CSV file inserted
MaxCsvRows == 2

\* the largest number of direct calls of get_or_create_bank
MaxBankCalls == 4

\* the NULL of an INTEGER column
SqlNull == 0 - 2

BankNames == {"Bank of Abyssinia", "Dashen Bank", "Commercial Bank of Ethiopia"}

CsvBanks == {"Bank of Abyssinia", "Dashen Bank"}

CsvTexts == {NaN, "Good app"}

CsvRatings == {MissingRating, 3, 6}

\* the tables of reviews_cleaned.csv or reviews_analyzed.csv
CsvTables ==
    UNION {[1..n -> [bank_name : CsvBanks, review_text : CsvTexts,
                     rating : CsvRatings]] : n \in 0..MaxCsvRows}

\* what the database holds before a script connects: nothing, or a bank
\* with a review from an earlier run
InitialDatabases ==
    {[banks |-> <<>>, reviews |-> <<>>],
     [banks |-> <<[bank_id |-> 1, bank_name |-> "Bank of Abyssinia"]>>,
      reviews |-> <<[bank_id |-> 1, review_text |-> "Good app", rating |-> 3]>>]}

\* SELECT bank_id FROM banks WHERE bank_name = %s, and fetchone()
SelectBank(banks, bank_name) ==
    SelectSeq(banks, LAMBDA row : row.bank_name = bank_name)

\* a lookup that finds no row
Found_never(result) == FALSE

\* if result
Found(result) == result # <<>>

\* bank_name VARCHAR(255) NOT NULL UNIQUE
UniqueBankName(banks, bank_name) == SelectBank(banks, bank_name) = <<>>

\* get_or_create_bank(conn, bank_name): the id it returns, the banks table
\* and the sequence after it, whether it created a row, and the exception
\* of the INSERT ("" if none). The sequence moves on even if the row is
\* refused.
get_or_create_bank(banks, seq, bank_name) ==
    LET result == SelectBank(banks, bank_name)
    IN  IF Found(result)
        THEN [bank_id |-> result[1].bank_id, banks |-> banks, seq |-> seq,
              created |-> FALSE, raised |-> ""]
        ELSE IF UniqueBankName(banks, bank_name)
        THEN [bank_id |-> seq + 1,
              banks |-> Append(banks, [bank_id |-> seq + 1, bank_name |-> bank_name]),
              seq |-> seq + 1, created |-> TRUE, raised |-> ""]
        ELSE [bank_id |-> 0, banks |-> banks, seq |-> seq + 1,
              created |-> FALSE, raised |-> "UniqueViolation"]

BankInit ==
    /\ pc = "bank_calls"
    /\ df = <<>>
    /\ nlp = "None"
    /\ banks_todo = <<>>
    /\ bank_themes = <<>>
    /\ bank_keywords = <<>>
    /\ extractor_log = <<>>
    /\ primary_keywords = <<>>
    /\ tfidf_errors = <<>>
    /\ themes_col = <<>>
    /\ keywords = <<>>
    /\ theme_keywords = <<>>
    /\ theme_keywords_again = <<>>
    /\ calls = 0
    /\ review_text = ""
    /\ matched_themes = <<>>
    /\ pair_idle
    /\ theme_summary = <<>>
    /\ sentiment_idle
    /\ run_idle
    /\ prep_idle
    /\ tagging = NoTagging
    /\ scrape_idle

    /\ \E d \in InitialDatabases :
          /\ banks_table = d.banks
          /\ bank_id_seq = Len(d.banks)
          /\ reviews_table = d.reviews
    /\ tx_reviews = <<>>
    /\ reviews_before = <<>>
    /\ csv_rows = <<>>
    /\ names_todo = <<>>
    /\ bank_id_map = <<>>
    /\ insert_error = ""
    /\ bank_calls = <<>>

\* bank_id = get_or_create_bank(conn, bank_name), any name, on one connection
BankCall ==
    /\ pc = "bank_calls"
    /\ Len(bank_calls) < MaxBankCalls
    /\ \E bank_name \in BankNames :
          LET out == get_or_create_bank(banks_table, bank_id_seq, bank_name)
          IN  /\ banks_table' = out.banks
              /\ bank_id_seq' = out.seq
              /\ bank_calls' = Append(bank_calls,
                    [bank_name |-> bank_name, bank_id |-> out.bank_id,
                     created |-> out.created, raised |-> out.raised,
                     existed |-> SelectBank(banks_table, bank_name) # <<>>])
    /\ UNCHANGED <<pc, reviews_table, tx_reviews, reviews_before, csv_rows,
                   names_todo, bank_id_map, insert_error>>
    /\ UNCHANGED <<pipeline_vars, unit_vars, stage_vars, scrape_vars>>

BankNext == BankCall

BankSpec == BankInit /\ [][BankNext]_vars

DbInit ==
    /\ pc = "db"
    /\ df = <<>>
    /\ nlp = "None"
    /\ banks_todo = <<>>
    /\ bank_themes = <<>>
    /\ bank_keywords = <<>>
    /\ extractor_log = <<>>
    /\ primary_keywords = <<>>
    /\ tfidf_errors = <<>>
    /\ themes_col = <<>>
    /\ keywords = <<>>
    /\ theme_keywords = <<>>
    /\ theme_keywords_again = <<>>
    /\ calls = 0
    /\ review_text = ""
    /\ matched_themes = <<>>
    /\ pair_idle
    /\ theme_summary = <<>>
    /\ sentiment_idle
    /\ run_idle
    /\ prep_idle
    /\ tagging = NoTagging
    /\ scrape_idle

    /\ \E d \in InitialDatabases :
          /\ banks_table = d.banks
          /\ bank_id_seq = Len(d.banks)
          /\ reviews_table = d.reviews
    /\ tx_reviews = <<>>
    /\ reviews_before = <<>>
    /\ csv_rows = <<>>
    /\ names_todo = <<>>
    /\ bank_id_map = <<>>
    /\ insert_error = ""
    /\ bank_calls = <<>>

\* psycopg2.connect(**db_params) with autocommit switched on
autocommit_on == TRUE

\* psycopg2.connect(**db_params): a connection commits on commit() only
autocommit == FALSE

\* conn.rollback(): what the open transaction inserted is dropped
rollback(pending) == <<>>

\* str(row['review_text'])[:10000]; the modelled texts are shorter
str(v) == IF isna(v) THEN "nan" ELSE v

\* int(row['rating']) if pd.notna(row['rating']) else None
RatingValue(rating) == IF rating = MissingRating THEN SqlNull ELSE rating

\* the tuple appended to reviews_data for a row of the table
ReviewTuple(row, map) ==
    [bank_id |-> map[row.bank_name], review_text |-> str(row.review_text),
     rating |-> RatingValue(row.rating)]

\* rating INTEGER CHECK (rating >= 1 AND rating <= 5): NULL passes a CHECK
RatingCheck(row) == row.rating = SqlNull \/ (row.rating >= 1 /\ row.rating <= 5)

\* review_text TEXT NOT NULL
TextNotNull(row) == ~isna(row.review_text)

\* the distinct values of the bank_name column, in order of appearance
UniqueNames(d) ==
    LET first == SelectSeq([i \in DOMAIN d |-> i],
                     LAMBDA i : \A j \in 1..(i - 1) : d[j].bank_name # d[i].bank_name)
    IN  [k \in DOMAIN first |-> d[first[k]].bank_name]

\* the except branch of insert_reviews_from_csv: rollback and close
InsertFailed(exc) ==
    /\ insert_error' = exc
    /\ tx_reviews' = rollback(tx_reviews)
    /\ pc' = "db_done"

\* conn = get_db_connection(); without a connection the function returns
Connect ==
    /\ pc = "db"
    /\ reviews_before' = reviews_table
    /\ \E connected \in BOOLEAN : pc' = IF connected THEN "connected" ELSE "db_done"
    /\ UNCHANGED <<banks_table, bank_id_seq, reviews_table, tx_reviews, csv_rows,
                   names_todo, bank_id_map, insert_error, bank_calls>>
    /\ UNCHANGED <<pipeline_vars, unit_vars, stage_vars, scrape_vars>>

\* the file is loaded and its columns renamed and filled; fillna(None)
\* raises ValueError in the pandas versions that demand a fill value and
\* passes in the others; without a file the function returns
LoadCsv ==
    /\ pc = "connected"
    /\ \E file_exists \in BOOLEAN, fillna_none_raises \in BOOLEAN, d \in CsvTables :
          IF ~file_exists
          THEN /\ pc' = "db_done"
               /\ UNCHANGED <<csv_rows, names_todo, insert_error, tx_reviews>>
          ELSE IF fillna_none_raises
          THEN /\ InsertFailed("ValueError")
               /\ UNCHANGED <<csv_rows, names_todo>>
          ELSE /\ csv_rows' = d
               /\ names_todo' = UniqueNames(d)
               /\ pc' = "banks"
               /\ UNCHANGED <<insert_error, tx_reviews>>
    /\ UNCHANGED <<banks_table, bank_id_seq, reviews_table, reviews_before,
                   bank_id_map, bank_calls>>
    /\ UNCHANGED <<pipeline_vars, unit_vars, stage_vars, scrape_vars>>

\* a turn of the loop over df['bank_name'].unique(): the bank is looked up
\* or created and committed, or the database raises
ProcessBank ==
    /\ pc = "banks"
    /\ names_todo # <<>>
    /\ \E db_ok \in BOOLEAN :
          LET bank_name == Head(names_todo)
              out == get_or_create_bank(banks_table, bank_id_seq, bank_name)
          IN  IF db_ok /\ out.raised = ""
              THEN /\ banks_table' = out.banks
                   /\ bank_id_seq' = out.seq
                   /\ bank_id_map' = Append(bank_id_map,
                         [bank_name |-> bank_name, bank_id |-> out.bank_id])
                   /\ bank_calls' = Append(bank_calls,
                         [bank_name |-> bank_name, bank_id |-> out.bank_id,
                          created |-> out.created, raised |-> out.raised,
                          existed |-> SelectBank(banks_table, bank_name) # <<>>])
                   /\ names_todo' = Tail(names_todo)
                   /\ UNCHANGED <<pc, insert_error, tx_reviews>>
              ELSE /\ InsertFailed(IF out.raised # "" THEN out.raised
                                   ELSE "OperationalError")
                   /\ UNCHANGED <<banks_table, bank_id_seq, bank_id_map, bank_calls,
                                  names_todo>>
    /\ UNCHANGED <<reviews_table, reviews_before, csv_rows>>
    /\ UNCHANGED <<pipeline_vars, unit_vars, stage_vars, scrape_vars>>

\* bank_id_map[name]
BankIdOf(map) ==
    [name \in {map[i].bank_name : i \in DOMAIN map} |->
        map[CHOOSE i \in DOMAIN map : map[i].bank_name = name].bank_id]

\* reviews_data is prepared and execute_values inserts it: a row the table
\* refuses, or a database error, makes the statement raise
InsertReviews ==
    /\ pc = "banks"
    /\ names_todo = <<>>
    /\ \E db_ok \in BOOLEAN :
          LET reviews_data == [i \in DOMAIN csv_rows |->
                                  ReviewTuple(csv_rows[i], BankIdOf(bank_id_map))]
              refused == {i \in DOMAIN reviews_data :
                             ~RatingCheck(reviews_data[i]) \/ ~TextNotNull(reviews_data[i])}
          IN  IF db_ok /\ refused = {}
              THEN /\ IF autocommit
                      THEN /\ reviews_table' = reviews_table \o reviews_data
                           /\ UNCHANGED tx_reviews
                      ELSE /\ tx_reviews' = reviews_data
                           /\ UNCHANGED reviews_table
                   /\ pc' = "inserted"
                   /\ UNCHANGED insert_error
              ELSE /\ InsertFailed(IF refused # {} THEN "CheckViolation"
                                   ELSE "OperationalError")
                   /\ UNCHANGED reviews_table
    /\ UNCHANGED <<banks_table, bank_id_seq, reviews_before, csv_rows, names_todo,
                   bank_id_map, bank_calls>>
    /\ UNCHANGED <<pipeline_vars, unit_vars, stage_vars, scrape_vars>>

\* conn.commit(), or the database raises and the handler rolls back
CommitReviews ==
    /\ pc = "inserted"
    /\ \E db_ok \in BOOLEAN :
          IF db_ok
          THEN /\ reviews_table' = reviews_table \o tx_reviews
               /\ tx_reviews' = <<>>
               /\ pc' = "db_done"
               /\ UNCHANGED insert_error
          ELSE /\ InsertFailed("OperationalError")
               /\ UNCHANGED reviews_table
    /\ UNCHANGED <<banks_table, bank_id_seq, reviews_before, csv_rows, names_todo,
                   bank_id_map, bank_calls>>
    /\ UNCHANGED <<pipeline_vars, unit_vars, stage_vars, scrape_vars>>

DbNext ==
    \/ Connect
    \/ LoadCsv
    \/ ProcessBank
    \/ InsertReviews
    \/ CommitReviews

DbSpec == DbInit /\ [][DbNext]_vars

---------------------------------------------------------------------------
(* Properties.                                                             *)

TaxonomyNames == [t \in DOMAIN theme_patterns |-> theme_patterns[t].theme]

\* the position of a bank in bank_themes (0 if it has no entry)
EntryOf(bank) ==
    IF \E b \in DOMAIN bank_themes : bank_themes[b].bank = bank
    THEN CHOOSE b \in DOMAIN bank_themes : bank_themes[b].bank = bank
    ELSE 0

\* the bound keywords of a mapping
BoundKeywords(tk) ==
    UNION {{tk[t].keywords[i][1] : i \in DOMAIN tk[t].keywords} : t \in DOMAIN tk}

\* the bound keywords of one theme of a mapping, by theme name
BoundTo(tk, name) ==
    UNION {{tk[t].keywords[i][1] : i \in DOMAIN tk[t].keywords} :
           t \in {u \in DOMAIN tk : tk[u].theme = name}}

\* the theme names of a mapping having a bound keyword inside the text
ThemesIn(text, tk) ==
    IF isna(text) THEN {}
    ELSE {name \in Range(TaxonomyNames) :
             \E k \in BoundTo(tk, name) : Contains(lower(text), k)}

\* the tags of a cell of the themes column
TagsOf(cell) == SplitOn(cell, "; ", 1, "")

\* text has a present, non-empty value
HasText(text) == ~isna(text) /\ text # ""

\* the word occurs in the text as a whole word
HasWord(text, word) ==
    HasText(text) /\ word \in Range(split(preprocess_text(text)))

\* C1: after assign_themes_to_reviews has run with the mappings of
\* analyze_themes_by_bank for the same table, every review has a non-empty
\* theme tag of at least one theme name, "Other" when no bound keyword matched.
C1_EveryReviewTagged ==
    pc = "done" =>
        \A idx \in DOMAIN df :
            /\ idx \in DOMAIN themes_col
            /\ themes_col[idx] # ""
            /\ \A i \in DOMAIN TagsOf(themes_col[idx]) : TagsOf(themes_col[idx])[i] # ""
            /\ EntryOf(df[idx].bank) # 0
            /\ (ThemesIn(df[idx].review, bank_themes[EntryOf(df[idx].bank)].themes) = {}
                   => themes_col[idx] = "Other")

C1_Witness ==
    /\ pc = "done"
    /\ Len(bank_themes) = 2
    /\ \E i, j \in DOMAIN df :
          /\ df[i].bank # df[j].bank
          /\ themes_col[i] = "Other"
          /\ themes_col[j] # "Other"

\* C2: in the mapping returned by identify_themes every keyword is bound to
\* at most one theme, and at most once inside that theme.
C2_AtMostOneTheme ==
    calls >= 1 =>
        \A t1, t2 \in DOMAIN theme_keywords :
            \A i1 \in DOMAIN theme_keywords[t1].keywords,
               i2 \in DOMAIN theme_keywords[t2].keywords :
                theme_keywords[t1].keywords[i1][1] = theme_keywords[t2].keywords[i2][1]
                    => t1 = t2 /\ i1 = i2

\* "error" is a seed of two themes and was bound next to another keyword
C2_Witness ==
    /\ calls >= 1
    /\ "error" \in BoundTo(theme_keywords, "Account Access Issues")
    /\ Len(theme_keywords) >= 2

\* the taxonomy positions whose seeds match the keyword in either direction
MatchingThemes(k) ==
    {t \in DOMAIN theme_patterns :
        \E j \in DOMAIN theme_patterns[t].patterns :
            \/ Contains(k, theme_patterns[t].patterns[j])
            \/ Contains(theme_patterns[t].patterns[j], k)}

\* C3: identify_themes binds each lowercased extracted keyword to exactly the
\* first theme in taxonomy order having a seed that contains it or is
\* contained in it, binds a keyword matching no seed to no theme, and binds
\* nothing that is not an extracted keyword.
C3_FirstMatchingTheme ==
    calls >= 1 =>
        /\ \A i \in DOMAIN keywords :
              LET k == lower(keywords[i][1])
                  matching == MatchingThemes(k)
                  holders == {name \in Range(TaxonomyNames) :
                                 k \in BoundTo(theme_keywords, name)}
              IN  holders = IF matching = {} THEN {}
                            ELSE {TaxonomyNames[
                                    CHOOSE t \in matching : \A u \in matching : t <= u]}
        /\ BoundKeywords(theme_keywords)
              \subseteq {lower(keywords[i][1]) : i \in DOMAIN keywords}

\* "work" is bound through the seed "network" that contains it, and "good"
\* is left unbound
C3_Witness ==
    /\ calls >= 1
    /\ "work" \in BoundTo(theme_keywords, "Account Access Issues")
    /\ \E i \in DOMAIN keywords : keywords[i][1] = "good"
    /\ "good" \notin BoundKeywords(theme_keywords)

\* the rows of a bank
RowsOf(bank) == {idx \in DOMAIN df : df[idx].bank = bank}

\* the keywords a bank passed to identify_themes
KeywordsOf(b) == {bank_keywords[b][i][1] : i \in DOMAIN bank_keywords[b]}

\* C4 as stated: for a source-group in which every document contains the word
\* "crash", the "App Reliability & Bugs" list includes "crash" and every such
\* document is tagged with "App Reliability & Bugs".
C4_Original ==
    pc = "done" =>
        \A b \in DOMAIN bank_themes :
            (\A idx \in RowsOf(bank_themes[b].bank) : HasWord(df[idx].review, "crash"))
                => /\ "crash" \in BoundTo(bank_themes[b].themes, "App Reliability & Bugs")
                   /\ \A idx \in RowsOf(bank_themes[b].bank) :
                         "App Reliability & Bugs" \in Range(TagsOf(themes_col[idx]))

\* C4 amended: for a source-group whose extracted keywords contain "crash",
\* the "App Reliability & Bugs" list includes "crash" and every document of
\* the group containing the word "crash" is tagged with that theme; the
\* primary extractor never yields "crash" when every document contains it.
C4_CrashKeywordBound ==
    pc = "done" =>
        \A b \in DOMAIN bank_themes :
            /\ "crash" \in KeywordsOf(b)
                  => /\ "crash" \in BoundTo(bank_themes[b].themes, "App Reliability & Bugs")
                     /\ \A idx \in RowsOf(bank_themes[b].bank) :
                           HasWord(df[idx].review, "crash")
                              => "App Reliability & Bugs" \in Range(TagsOf(themes_col[idx]))
            /\ (/\ extractor_log[b] = <<"tfidf">>
                /\ \A idx \in RowsOf(bank_themes[b].bank) : HasWord(df[idx].review, "crash"))
                  => "crash" \notin KeywordsOf(b)

\* "crash" was kept by the primary extractor and tags two documents
C4_Witness ==
    /\ pc = "done"
    /\ \E b \in DOMAIN bank_themes :
          /\ extractor_log[b] = <<"tfidf">>
          /\ "crash" \in KeywordsOf(b)
          /\ Cardinality({idx \in RowsOf(bank_themes[b].bank) :
                            /\ HasWord(df[idx].review, "crash")
                            /\ "App Reliability & Bugs" \in Range(TagsOf(themes_col[idx]))}) >= 2

\* the themes of the mapping with a bound keyword in the text, in taxonomy order
ExpectedThemes(text, tk) ==
    SelectSeq(TaxonomyNames, LAMBDA name : name \in ThemesIn(text, tk))

\* C5: for a non-empty review text assign_theme_to_review returns exactly the
\* themes of the mapping having a bound keyword inside the lowercased text,
\* each once, in taxonomy order (several themes when several match), and
\* the single theme "Other" when none does.
C5_ExactlyMatchingThemes ==
    (pc = "tagged" /\ HasText(review_text)) =>
        matched_themes =
            IF ExpectedThemes(review_text, theme_keywords) = <<>>
            THEN <<"Other">>
            ELSE ExpectedThemes(review_text, theme_keywords)

\* a review that received two themes
C5_Witness ==
    /\ pc = "tagged"
    /\ HasText(review_text)
    /\ Len(matched_themes) >= 2
    /\ "Other" \notin Range(matched_themes)

\* C6: a review's final tag contains "Other" exactly when no theme of its
\* bank's mapping matched; "Other" is then the only tag, and every tag is a
\* taxonomy theme name or "Other".
C6_OtherOnlyWhenNoMatch ==
    pc = "done" =>
        \A idx \in DOMAIN df :
            LET tags == TagsOf(themes_col[idx])
                tk == bank_themes[EntryOf(df[idx].bank)].themes
                matching == IF HasText(df[idx].review)
                            THEN ThemesIn(df[idx].review, tk) ELSE {}
            IN  /\ ("Other" \in Range(tags) <=> matching = {})
                /\ ("Other" \in Range(tags) => tags = <<"Other">>)
                /\ Range(tags) \subseteq Range(TaxonomyNames) \cup {"Other"}

\* one review carries two taxonomy themes, another of the same bank "Other"
C6_Witness ==
    /\ pc = "done"
    /\ \E i, j \in DOMAIN df :
          /\ df[i].bank = df[j].bank
          /\ Len(TagsOf(themes_col[i])) >= 2
          /\ themes_col[j] = "Other"

C8_NonEmptySortedThemes ==
    calls >= 1 =>
        \A t \in DOMAIN theme_keywords :
            /\ theme_keywords[t].keywords # <<>>
            /\ \A i, j \in DOMAIN theme_keywords[t].keywords :
                  i < j => theme_keywords[t].keywords[i][2] >= theme_keywords[t].keywords[j][2]

\* a theme whose heavier keyword comes later in the keyword list, next to
\* themes that bound nothing
C8_Witness ==
    /\ calls >= 1
    /\ Len(theme_keywords) = 1
    /\ Len(keywords) >= 2
    /\ lower(keywords[1][1]) = "error"
    /\ lower(keywords[2][1]) = "work"
    /\ keywords[1][2] < keywords[2][2]
    /\ Len(theme_keywords[1].keywords) = 2

\* C9: when extraction for a bank yields no keywords (both extractors return
\* an empty list), the bank's theme mapping is empty and every review of the
\* bank is tagged exactly "Other".
C9_NoKeywordsAllOther ==
    pc = "done" =>
        \A b \in DOMAIN bank_themes :
            bank_keywords[b] = <<>> =>
                /\ extractor_log[b] = <<"tfidf", "spacy">>
                /\ bank_themes[b].themes = <<>>
                /\ \A idx \in RowsOf(bank_themes[b].bank) : themes_col[idx] = "Other"

\* a bank without keywords that has a review with text
C9_Witness ==
    /\ pc = "done"
    /\ \E b \in DOMAIN bank_themes :
          /\ bank_keywords[b] = <<>>
          /\ \E idx \in RowsOf(bank_themes[b].bank) : HasText(df[idx].review)

\* C10: a review whose text is empty or missing ends the tagging step with
\* the tag "Other", whatever the theme mapping of its bank contains.
C10_EmptyTextOther ==
    pc = "done" =>
        \A idx \in DOMAIN df :
            ~HasText(df[idx].review) => themes_col[idx] = "Other"

\* a missing and an empty text in a bank whose mapping is not empty
C10_Witness ==
    /\ pc = "done"
    /\ \E i, j \in DOMAIN df :
          /\ df[i].bank = df[j].bank
          /\ isna(df[i].review)
          /\ df[j].review = ""
          /\ bank_themes[EntryOf(df[i].bank)].themes # <<>>
          /\ themes_col[i] = "Other"
          /\ themes_col[j] = "Other"

\* the banks of the table, in order of first appearance
BanksInOrder ==
    LET first == {i \in DOMAIN df : \A j \in DOMAIN df : df[j].bank = df[i].bank => i <= j}
    IN  [k \in 1..Cardinality(first) |->
            df[CHOOSE i \in first : Cardinality({j \in first : j <= i}) = k].bank]

\* extraction failed for the bank: the primary extractor raised and the
\* fallback produced no keyword either
ExtractionFailed(b) == tfidf_errors[b] /\ bank_keywords[b] = <<>>

\* C11: a failed keyword extraction for one bank never takes the run out of
\* analyze_themes_by_bank: the loop goes on through the remaining banks, at
\* the end every bank of the table has its entry in the result, and every
\* review of a bank whose extraction failed is tagged "Other".
C11_FailureDoesNotAbort ==
    /\ pc # "raised"
    /\ pc \in {"analyze", "done"} =>
          [b \in DOMAIN bank_themes |-> bank_themes[b].bank] \o banks_todo = BanksInOrder
    /\ pc = "done" =>
          /\ banks_todo = <<>>
          /\ \A b \in DOMAIN bank_themes :
                ExtractionFailed(b) =>
                    /\ bank_themes[b].themes = <<>>
                    /\ \A idx \in RowsOf(bank_themes[b].bank) : themes_col[idx] = "Other"

\* the first bank's extraction failed on a review with text, and the bank
\* after it still got its keywords and a tag other than "Other"
C11_Witness ==
    /\ pc = "done"
    /\ Len(bank_themes) = 2
    /\ ExtractionFailed(1)
    /\ \E idx \in RowsOf(bank_themes[1].bank) : df[idx].review # NaN
    /\ bank_keywords[2] # <<>>
    /\ \E idx \in RowsOf(bank_themes[2].bank) : themes_col[idx] # "Other"

\* the processed documents of a bank, stop words and one-letter tokens removed
CorpusOf(bank) ==
    LET reviews == [idx \in RowsOf(bank) |-> preprocess_text(df[idx].review)]
    IN  [idx \in RowsOf(bank) |->
            " " \o join(" ", SelectSeq(split(reviews[idx]),
                         LAMBDA w : Len(w) >= 2 /\ w \notin ENGLISH_STOP_WORDS)) \o " "]

\* the number of documents of the bank a term appears in
DocumentsWith(term, bank) ==
    Cardinality({idx \in RowsOf(bank) : Contains(CorpusOf(bank)[idx], " " \o term \o " ")})

\* C18: no keyword returned by the primary extractor for a bank's corpus
\* appears in fewer than 2 documents of the corpus or in more than 80% of them.
C18_DocumentFrequencyLimits ==
    \A b \in DOMAIN primary_keywords :
        \A i \in DOMAIN primary_keywords[b] :
            LET n == DocumentsWith(primary_keywords[b][i][1], bank_themes[b].bank)
            IN  /\ n >= 2
                /\ 10 * n <= 8 * Cardinality(RowsOf(bank_themes[b].bank))

\* the primary extractor returned keywords and left out "crash", which is
\* in every document of the corpus
C18_Witness ==
    \E b \in DOMAIN primary_keywords :
        /\ primary_keywords[b] # <<>>
        /\ DocumentsWith("crash", bank_themes[b].bank) = Cardinality(RowsOf(bank_themes[b].bank))
        /\ \A i \in DOMAIN primary_keywords[b] : primary_keywords[b][i][1] # "crash"

\* C19: for every bank the primary extractor runs first; the fallback
\* extractor runs, after it, only when the primary one raised or returned no
\* keyword; when the primary one returned keywords the fallback does not run
\* and identify_themes receives exactly the primary's list.
C19_FallbackOnlyAfterPrimaryFailed ==
    \A b \in DOMAIN extractor_log :
        /\ extractor_log[b] \in {<<"tfidf">>, <<"tfidf", "spacy">>}
        /\ (extractor_log[b] = <<"tfidf", "spacy">>
               <=> (tfidf_errors[b] \/ primary_keywords[b] = <<>>))
        /\ primary_keywords[b] # <<>> =>
              /\ extractor_log[b] = <<"tfidf">>
              /\ bank_keywords[b] = primary_keywords[b]

\* the primary extractor returned keywords while the spaCy model was loaded,
\* and another bank of the run needed the fallback
C19_Witness ==
    /\ nlp = "loaded"
    /\ \E b \in DOMAIN extractor_log :
          /\ primary_keywords[b] # <<>>
          /\ extractor_log[b] = <<"tfidf">>
          /\ bank_keywords[b] # extract_keywords_spacy(bank_reviews(df, bank_themes[b].bank))

\* the keywords a bank's entry of a run passed to identify_themes
KeywordNames(kws) == {kws[i][1] : i \in DOMAIN kws}

\* a mapping as the sequence of its themes, each with the set of its keywords
ThemeSets(tk) ==
    [t \in DOMAIN tk |->
        [theme |-> tk[t].theme,
         keywords |-> {tk[t].keywords[i][1] : i \in DOMAIN tk[t].keywords}]]

\* the cells of a column on the rows of a bank, in row order
CellsOf(d, col, bank) ==
    LET rows == SelectSeq([i \in DOMAIN d |-> i], LAMBDA i : d[i].bank = bank)
    IN  [k \in DOMAIN rows |-> col[rows[k]]]

\* C12: the keyword set, the theme mapping and the review tags of a bank are
\* the same in two runs whose tables hold the same reviews of that bank and
\* differ in the rows of other banks, which also changes the order in which
\* the banks are processed.
C12_BankIndependence ==
    (run = 2 /\ pc = "done") =>
        LET bank == prev.df[1].bank
            b == EntryOf(bank)
        IN  /\ b # 0
            /\ KeywordNames(bank_keywords[b]) = KeywordNames(prev.bank_keywords[1])
            /\ ThemeSets(bank_themes[b].themes) = ThemeSets(prev.bank_themes[1].themes)
            /\ CellsOf(df, themes_col, bank) = prev.themes_col

\* in the second run another bank was processed first and got a different,
\* non-empty mapping
C12_Witness ==
    /\ run = 2
    /\ pc = "done"
    /\ Len(bank_themes) = 2
    /\ bank_themes[1].bank # prev.df[1].bank
    /\ bank_themes[2].themes # <<>>
    /\ bank_themes[1].themes # <<>>
    /\ ThemeSets(bank_themes[1].themes) # ThemeSets(bank_themes[2].themes)
    /\ \E idx \in DOMAIN df : Len(TagsOf(themes_col[idx])) >= 2

\* the weight of a keyword in a theme's list
WeightIn(kws, name) == kws[CHOOSE i \in DOMAIN kws : kws[i][1] = name][2]

\* the names a top_keywords cell lists
TopNames(cell) == IF cell = "" THEN <<>> ELSE SplitOn(cell, ", ", 1, "")

\* C17: the theme summary has exactly one row for every theme of every
\* bank's mapping; the row's keyword_count is the number of distinct keywords
\* bound to the theme, and its top_keywords are at most 10 of them, none
\* lighter than a keyword left out, in order of non-increasing weight.
C17_ThemeSummaryRows ==
    pc = "summarized" =>
        /\ \A b \in DOMAIN bank_themes :
            \A t \in DOMAIN bank_themes[b].themes :
              Cardinality({r \in DOMAIN theme_summary :
                  /\ theme_summary[r].bank = bank_themes[b].bank
                  /\ theme_summary[r].theme = bank_themes[b].themes[t].theme}) = 1
        /\ \A r \in DOMAIN theme_summary :
              \E b \in DOMAIN bank_themes :
                \E t \in DOMAIN bank_themes[b].themes :
                  LET kws == bank_themes[b].themes[t].keywords
                      names == {kws[i][1] : i \in DOMAIN kws}
                      top == TopNames(theme_summary[r].top_keywords)
                  IN  /\ theme_summary[r].bank = bank_themes[b].bank
                      /\ theme_summary[r].theme = bank_themes[b].themes[t].theme
                      /\ theme_summary[r].keyword_count = Cardinality(names)
                      /\ Len(top) <= 10
                      /\ Len(top) = IF Cardinality(names) < 10
                                    THEN Cardinality(names) ELSE 10
                      /\ Range(top) \subseteq names
                      /\ Cardinality(Range(top)) = Len(top)
                      /\ \A i, j \in DOMAIN top :
                            i < j => WeightIn(kws, top[i]) >= WeightIn(kws, top[j])
                      /\ \A x \in Range(top), y \in names \ Range(top) :
                            WeightIn(kws, x) >= WeightIn(kws, y)

\* a theme with more than 10 keywords of different weights, next to the row
\* of a second bank
C17_Witness ==
    /\ pc = "summarized"
    /\ Len(bank_themes) = 2
    /\ Len(theme_summary) = 2
    /\ theme_summary[1].bank # theme_summary[2].bank
    /\ \E r \in DOMAIN theme_summary :
          /\ theme_summary[r].keyword_count > 10
          /\ Len(TopNames(theme_summary[r].top_keywords)) = 10
          /\ \E kws \in {bank_themes[1].themes[t].keywords : t \in DOMAIN bank_themes[1].themes} :
                /\ Len(kws) > 10
                /\ kws[1][2] > kws[Len(kws)][2]

\* C15: analyze_text answers an empty, a missing and a whitespace-only text
\* with the label neutral and the score 0.0 and invokes neither DistilBERT
\* nor VADER, whatever state the analyzer is in.
C15_BlankTextNeutral ==
    (pc = "ready" /\ sent_text \in {NaN, "", " "} /\ sent_result # NoResult) =>
        /\ sent_result = [sentiment_label |-> "neutral", sentiment_score |-> 0]
        /\ sent_invoked = <<>>

\* a whitespace-only text given to an analyzer whose DistilBERT pipeline is
\* loaded and in use
C15_Witness ==
    /\ pc = "ready"
    /\ sent_text = " "
    /\ sent_result = [sentiment_label |-> "neutral", sentiment_score |-> 0]
    /\ analyzer.use_distilbert
    /\ analyzer.distilbert_pipeline = "loaded"

\* the (bank, rating) pairs of the table
BankRatingPairs == {<<sent_df[i].bank, sent_df[i].rating>> : i \in DOMAIN sent_df}

RECURSIVE CountSum(_, _)
CountSum(rows, i) ==
    IF i > Len(rows) THEN 0 ELSE rows[i].review_count + CountSum(rows, i + 1)

C13_NoExceptionEscapes ==
    /\ exception = ""
    /\ pc # "raised"
    /\ pc = "exit" => result_df \in {"None", "df_output"}

\* C14: when the input file does not exist, run_full_pipeline returns None
\* and raises nothing, no step after the load step is entered, no analyzer is
\* built, nothing is written, and main() takes the branch for a None result.
C14_MissingFileReturnsNone ==
    (stages # <<>> /\ ~input_file.exists) =>
        /\ pc \in {"returned", "exit"}
        /\ result_df = "None"
        /\ exception = ""
        /\ stages = <<"load">>
        /\ written = {}
        /\ analyzer = NoAnalyzer
        /\ sent_df = <<>>
        /\ bank_themes = <<>>
        /\ themes_col = <<>>
        /\ agg_data = <<>>
        /\ theme_summary = <<>>
        /\ pc = "exit" => main_branch = "failed"

\* main() has seen the None of a run on a missing file
C14_Witness ==
    /\ pc = "exit"
    /\ ~input_file.exists
    /\ result_df = "None"
    /\ main_branch = "failed"

\* the records handle_missing_data is given that have a review text and a
\* rating in 1..5
ValidRecords ==
    SelectSeq(remove_duplicates(raw_df), LAMBDA r : HasReviewText(r) /\ ValidRating(r))

\* C20: handle_missing_data raises nothing, and the table it returns holds
\* the records of its argument that have a non-null, non-blank review text
\* and a rating from 1 to 5, and no other record.
C20_MissingDataHandled ==
    /\ pc # "raised"
    /\ prep_exception = ""
    /\ pc = "cleaned" =>
          /\ \A i \in DOMAIN clean_df :
                /\ HasReviewText(clean_df[i])
                /\ clean_df[i].rating \in 1..5
          /\ Len(clean_df) = Len(ValidRecords)
          /\ \A i \in DOMAIN clean_df :
                /\ clean_df[i].review = ValidRecords[i].review
                /\ clean_df[i].rating = ValidRecords[i].rating

\* the record of the raw table with the row label of `row`
RawRecord(row) == raw_df[CHOOSE i \in DOMAIN raw_df : raw_df[i].index = row.index]

\* a date is there and neither a format nor the pandas parser reads it
Unparseable(date) == ~isna(date) /\ date # "" /\ parse_date(date) = ""

\* C21: no record of the raw table whose date cannot be parsed is among the
\* records written to the cleaned output file.
C21_UnparseableDateFiltered ==
    pc = "saved_cleaned" =>
        \A i \in DOMAIN cleaned_csv : ~Unparseable(RawRecord(cleaned_csv[i]).date)

\* the records a run loaded that the predicate holds of
RawCount(Test(_)) == Len(SelectSeq(raw_df, Test))

\* C22: the quality metrics of a run count the data errors of the raw
\* records: missing_review_text the records with null or blank text,
\* missing_rating those with a missing or out-of-range rating, missing_date
\* those with a date that cannot be parsed.
C22_MetricsCountRawErrors ==
    pc \in {"reported", "saved_cleaned"} =>
        /\ metrics.missing_review_text = RawCount(LAMBDA r : ~HasReviewText(r))
        /\ metrics.missing_rating = RawCount(LAMBDA r : ~ValidRating(r))
        /\ metrics.missing_date = RawCount(LAMBDA r : Unparseable(r.date))

\* the columns of the pipeline's table other than the themes column
OtherFields == {"bank", "rating", "review", "sentiment_label", "sentiment_score"}

\* C23: in a pipeline run the themes cell of every review is written once;
\* the returned table has the reviews of the table passed, in their order,
\* with every other field as it was, and the table passed is as it was.
C23_TaggingChangesThemesOnly ==
    (stages # <<>> /\ tagging # NoTagging) =>
        /\ tagging.arg = sent_df
        /\ \A idx \in DOMAIN sent_df : DOMAIN tagging.arg[idx] = OtherFields
        /\ Len(tagging.out) = Len(sent_df)
        /\ \A idx \in DOMAIN tagging.out :
              /\ DOMAIN tagging.out[idx] = OtherFields \cup {"themes"}
              /\ \A f \in OtherFields : tagging.out[idx][f] = sent_df[idx][f]
              /\ tagging.writes[idx] = 1
              /\ tagging.out[idx].themes # ""

\* a finished run on reviews of two banks, one of them tagged with a theme
C23_Witness ==
    /\ pc = "exit"
    /\ result_df = "df_output"
    /\ Len(tagging.out) >= 2
    /\ \E i, j \in DOMAIN tagging.out :
          /\ tagging.out[i].bank # tagging.out[j].bank
          /\ tagging.out[i].themes \notin {"", "Other"}

\* C25: once the DistilBERT classifier has raised in analyze_text, the text
\* it raised on and every later non-blank text are scored by VADER: the
\* result is the one built from VADER's compound score of the stripped text.
C25_ErrorFallsBackToVader ==
    (/\ pc = "ready"
     /\ analyzer.distilbert_pipeline = "loaded"
     /\ ~analyzer.use_distilbert
     /\ ~IsBlankText(sent_text)) =>
        /\ "vader" \in Range(sent_invoked)
        /\ sent_result = FromVader(vader_compound(strip(sent_text)))

\* C26: an analyzer whose use_distilbert is false keeps it false, and no
\* analyze_text call made on it afterwards, alone or in a batch, invokes the
\* DistilBERT classifier.
C26_ModeMonotone ==
    [][/\ (pc = "ready" /\ ~analyzer.use_distilbert) =>
             /\ ~analyzer'.use_distilbert
             /\ \A k \in DOMAIN call_log' :
                   /\ "distilbert" \notin Range(call_log'[k].invoked)
                   /\ ~call_log'[k].use_distilbert
       /\ \A j, k \in DOMAIN call_log' :
             (j < k /\ ~call_log'[j].use_distilbert) =>
                 /\ ~call_log'[k].use_distilbert
                 /\ "distilbert" \notin Range(call_log'[k].invoked)
       /\ (call_log' # <<>> /\ call_log' # call_log) =>
             analyzer'.use_distilbert = call_log'[Len(call_log')].use_distilbert]_vars

\* a batch in which DistilBERT raised on one text and a later non-blank text
\* was analysed, and a single call on an analyzer that had lost DistilBERT
C26_Witness ==
    \/ /\ pc = "batched"
       /\ \E j, k \in DOMAIN call_log :
             /\ j < k
             /\ call_log[j].invoked = <<"distilbert">>
             /\ ~call_log[j].use_distilbert
             /\ ~IsBlankText(sent_df[k].review)
    \/ /\ pc = "ready"
       /\ analyzer.distilbert_pipeline = "loaded"
       /\ ~analyzer.use_distilbert
       /\ sent_invoked = <<>>
       /\ ~IsBlankText(sent_text)

\* C27: scrape_app_reviews returns: it calls reviews() at most max_attempts
\* times, and only while the list is short of the target and no call has
\* come back without a token; the list it returns has at most target_count
\* reviews.
C27_ScrapeTerminates ==
    /\ [](fetches <= max_attempts)
    /\ [](pc = "scrape_done" => Len(scraped) <= target_count)
    /\ [][fetches' # fetches =>
             /\ Len(all_reviews) < target_count
             /\ fetches < max_attempts
             /\ pc # "collected"]_vars
    /\ <>(pc = "scrape_done")

\* the run that used every attempt, and the run cut to its target
C27_Witness ==
    /\ pc = "scrape_done"
    /\ \/ fetches = max_attempts
       \/ Len(all_reviews) > target_count /\ Len(scraped) = target_count

RowsAdded == SubSeq(reviews_table, Len(reviews_before) + 1, Len(reviews_table))

\* C24: every row the insert path has put in the reviews table has a text
\* that is not null and a rating from 1 to 5, and so has the record of the
\* file it was made from.
C24_StorageBoundary ==
    (pc = "db_done" /\ RowsAdded # <<>>) =>
        \A i \in DOMAIN RowsAdded :
            /\ RowsAdded[i].rating \in 1..5
            /\ ~isna(RowsAdded[i].review_text)
            /\ csv_rows[i].rating \in 1..5
            /\ ~isna(csv_rows[i].review_text)

\* the reviews_data of the run, as far as the banks are looked up
Prepared ==
    IF names_todo = <<>> /\ Len(bank_id_map) = Len(UniqueNames(csv_rows))
    THEN [i \in DOMAIN csv_rows |-> ReviewTuple(csv_rows[i], BankIdOf(bank_id_map))]
    ELSE <<>>

\* C30: the reviews table holds what it held before the run until the
\* final commit; after the run it holds that and every prepared row, or,
\* if an error was caught, exactly what it held before.
C30_AllOrNothing ==
    /\ pc \in {"connected", "banks", "inserted"} => reviews_table = reviews_before
    /\ pc = "db_done" =>
          /\ \/ reviews_table = reviews_before
             \/ reviews_table = reviews_before \o Prepared
          /\ insert_error # "" => reviews_table = reviews_before
          /\ tx_reviews = <<>>

\* a run over a table that held a review, rolled back on a database error
\* with its two rows prepared
C30_Witness ==
    /\ pc = "db_done"
    /\ insert_error = "OperationalError"
    /\ Len(Prepared) = 2
    /\ reviews_before # <<>>

\* C29: every call of get_or_create_bank returns an id; calls with the same
\* name return the same id and calls with different names different ids; a
\* call creates a row only if the table had none with that name; and the
\* banks table has no two rows with the same name.
C29_BankIdIdempotent ==
    /\ \A i \in DOMAIN bank_calls :
          /\ bank_calls[i].raised = ""
          /\ bank_calls[i].created => ~bank_calls[i].existed
          /\ \E r \in DOMAIN banks_table :
                /\ banks_table[r].bank_name = bank_calls[i].bank_name
                /\ banks_table[r].bank_id = bank_calls[i].bank_id
    /\ \A i, j \in DOMAIN bank_calls :
          (bank_calls[i].bank_name = bank_calls[j].bank_name)
              <=> (bank_calls[i].bank_id = bank_calls[j].bank_id)
    /\ \A r, q \in DOMAIN banks_table :
          banks_table[r].bank_name = banks_table[q].bank_name => r = q

\* a name looked up twice, one of them created by the first call, and
\* another name in between
C29_Witness ==
    /\ Len(bank_calls) = 3
    /\ bank_calls[1].created
    /\ bank_calls[2].bank_name # bank_calls[1].bank_name
    /\ bank_calls[3].bank_name = bank_calls[1].bank_name
    /\ ~bank_calls[3].created

====
